---------------------------- MODULE Spec2Model ----------------------------
(***************************************************************************)
(* A model of the PFM container format library (package pfm):              *)
(*   pfm/spec.py      grammar constants and the line escaping protocol     *)
(*   pfm/document.py  PFMDocument / PFMSection                             *)
(*   pfm/writer.py    PFMWriter.serialize / write                          *)
(*   pfm/reader.py    PFMReader.parse / read / open, PFMReaderHandle       *)
(*   pfm/security.py  sign / verify / verify_integrity                     *)
(*                                                                         *)
(* Text is a sequence of characters, each character a one-element string.  *)
(* A file is a sequence of bytes.  An ASCII character is encoded as the    *)
(* byte of the same name; the two-byte character UCHAR is encoded as the   *)
(* bytes UB1, UB2.  Hash digests are modelled as injective encodings of    *)
(* their input over an alphabet of "hex" atoms that is disjoint from every *)
(* other character.                                                        *)
(***************************************************************************)
EXTENDS Integers, Sequences, FiniteSets, TLC

VARIABLES
    \* --- escape_content_line / unescape_content_line driver ---
    line,       \* the input line
    cur,        \* the line after the escapes / unescapes applied so far
    nEsc,       \* number of escape_content_line applications
    nUn,        \* number of unescape_content_line applications
    \* --- document, writer and readers ---
    doc,        \* the caller's PFMDocument
    pre,        \* the document as it was before the last operation on it
    out,        \* the bytes PFMWriter.serialize returned
    file,       \* the bytes of the file at the path PFMWriter.write wrote
    parsed,     \* what PFMReader.parse / PFMReader.read returned
    handle,     \* the PFMReaderHandle PFMReader.open returned
    got,        \* the last by-name lookup, lazy and full
    pc,         \* the last operation of the scenario, or the position in verify
    \* --- signing, verification, hand-made files ---
    signed,     \* the document as sign() left it
    secret,     \* the secret sign() was given
    call,       \* the verification call in progress or last made
    before,     \* the document as it was when that call started
    doc_copy,   \* verify's local doc_copy
    shared,     \* whether doc_copy.custom_meta is the caller's dict object
    result,     \* what the verification call returned or raised
    crafted,    \* how the hand-made file was put together
    \* --- files on disk, PFMWriter.write step by step, PFMStreamWriter ---
    fsys,       \* the files: the path, its backup <path>.bak, the temporary file
    pending,    \* bytes written to the open handle and not yet flushed
    w,          \* the PFMStreamWriter object
    orig,       \* the bytes at the path when the operation or session began
    written,    \* the write_section calls that returned, with where they wrote
    step,       \* the position in PFMWriter.write / in the writer's life
    outcome     \* what the last call returned or raised

escVars == <<line, cur, nEsc, nUn>>
docVars == <<doc, pre, out, file, parsed, handle, got, pc>>
secVars == <<signed, secret, call, before, doc_copy, shared, result, crafted>>
fsVars == <<fsys, pending, w, orig, written, step, outcome>>
vars == <<line, cur, nEsc, nUn, doc, pre, out, file, parsed, handle, got, pc,
          signed, secret, call, before, doc_copy, shared, result, crafted,
          fsys, pending, w, orig, written, step, outcome>>

-----------------------------------------------------------------------------
(* Characters *)

BS == "\\"
NL == "\n"
CR == "\r"
SP == " "

-----------------------------------------------------------------------------
(* Bounds *)

\* Lines of the escape driver are concatenations of at most this many tokens.
MaxLineTokens == 3
\* escape_content_line / unescape_content_line are applied at most this often.
MaxDepth == 2
\* A document of the scenarios holds at most this many sections.
MaxSections == 2

-----------------------------------------------------------------------------
(* Generic string helpers (Python str methods) *)

\* str.startswith
StartsWith(s, p) == Len(s) >= Len(p) /\ SubSeq(s, 1, Len(p)) = p

\* s[i:] with a 0-based start index
From(s, i) == SubSeq(s, i + 1, Len(s))

RECURSIVE Concat(_)
\* "".join(parts)
Concat(parts) ==
    IF parts = <<>> THEN <<>> ELSE Head(parts) \o Concat(Tail(parts))

\* The least member of a non-empty set of integers.
Min(S) == CHOOSE i \in S : \A j \in S : i <= j

\* The least index i >= from with s[i] = c, or 0 when there is none.
IndexOfFrom(s, c, from) ==
    LET hits == {i \in from..Len(s) : s[i] = c}
    IN IF hits = {} THEN 0 ELSE Min(hits)

RECURSIVE Split(_, _)
\* str.split(c) for a one-character separator: never the empty list.
Split(s, c) ==
    LET i == IndexOfFrom(s, c, 1)
    IN IF i = 0 THEN <<s>>
       ELSE <<SubSeq(s, 1, i - 1)>> \o Split(SubSeq(s, i + 1, Len(s)), c)

RECURSIVE Join(_, _)
\* sep.join(parts)
Join(parts, sep) ==
    IF parts = <<>> THEN <<>>
    ELSE IF Len(parts) = 1 THEN parts[1]
    ELSE parts[1] \o sep \o Join(Tail(parts), sep)

\* str.find(p) from index `from` (1-based); 0 when p does not occur.
FindSub(s, p, from) ==
    LET hits == {i \in from..(Len(s) - Len(p) + 1) :
                    \A j \in 1..Len(p) : s[i + j - 1] = p[j]}
    IN IF hits = {} THEN 0 ELSE Min(hits)

\* "p in s"
Contains(s, p) == FindSub(s, p, 1) # 0

RECURSIVE ConcatsUpTo(_, _)
\* All concatenations of at most n members of the token set toks.
ConcatsUpTo(toks, n) ==
    IF n = 0 THEN {<<>>}
    ELSE LET shorter == ConcatsUpTo(toks, n - 1)
         IN shorter \cup {s \o t : s \in shorter, t \in toks}

-----------------------------------------------------------------------------
(* pfm/spec.py : grammar constants *)

MAGIC == <<"#", "!", "P", "F", "M">>
EOF_MARKER == <<"#", "!", "E", "N", "D">>
SECTION_PREFIX == <<"#", "@">>

-----------------------------------------------------------------------------
(* pfm/spec.py : escaping *)

RECURSIVE SkipBackslashes(_, _)
\* The loop "while i < len(line) and line[i] == '\\': i += 1"; i is 0-based.
SkipBackslashes(s, i) ==
    IF i < Len(s) /\ s[i + 1] = BS THEN SkipBackslashes(s, i + 1) ELSE i

\* A plausible slip: the predicate looks at the line start only and does not
\* skip leading backslashes.
has_marker_no_skip(s) ==
    \/ StartsWith(s, SECTION_PREFIX)
    \/ StartsWith(s, MAGIC)
    \/ StartsWith(s, EOF_MARKER)

_has_marker_after_backslashes(s) ==
    LET rest == From(s, SkipBackslashes(s, 0))
    IN \/ StartsWith(rest, SECTION_PREFIX)
       \/ StartsWith(rest, MAGIC)
       \/ StartsWith(rest, EOF_MARKER)

escape_content_line(s) ==
    IF _has_marker_after_backslashes(s) THEN <<BS>> \o s ELSE s

\* A plausible slip: strip the backslash only when a marker follows directly.
unescape_content_line_shallow(s) ==
    IF StartsWith(s, <<BS>>) /\ has_marker_no_skip(From(s, 1))
    THEN From(s, 1) ELSE s

unescape_content_line(s) ==
    IF StartsWith(s, <<BS>>) /\ _has_marker_after_backslashes(From(s, 1))
    THEN From(s, 1) ELSE s

\* The generator expressions of escape_content / unescape_content.
MapLines(lines, how) ==
    [i \in 1..Len(lines) |->
        IF how = "escape" THEN escape_content_line(lines[i])
        ELSE unescape_content_line(lines[i])]

\* escape_content: "\n".join(escape_content_line(l) for l in s.split("\n"))
escape_content(s) == Join(MapLines(Split(s, NL), "escape"), <<NL>>)

\* unescape_content
unescape_content(s) == Join(MapLines(Split(s, NL), "unescape"), <<NL>>)

-----------------------------------------------------------------------------
(* UTF-8 and number formatting *)

\* A two-byte character and its two bytes.
UCHAR == "U+00E9"
UB1 == "xC3"
UB2 == "xA9"

RECURSIVE Encode(_)
\* str.encode("utf-8"): every character's bytes, in order (the text is
\* halved so that the evaluation stays shallow).
Encode(s) ==
    IF s = <<>> THEN <<>>
    ELSE IF Len(s) = 1 THEN (IF s[1] = UCHAR THEN <<UB1, UB2>> ELSE s)
    ELSE Encode(SubSeq(s, 1, Len(s) \div 2))
         \o Encode(SubSeq(s, (Len(s) \div 2) + 1, Len(s)))

\* Whether bytes.decode("utf-8") succeeds (no UnicodeDecodeError): every
\* lead byte is followed by its continuation byte and every continuation
\* byte follows a lead byte.
DecodeOk(b) ==
    \A i \in 1..Len(b) :
        /\ b[i] = UB1 => (i < Len(b) /\ b[i + 1] = UB2)
        /\ b[i] = UB2 => (i > 1 /\ b[i - 1] = UB1)

\* bytes.decode("utf-8"), for bytes with DecodeOk.
Decode(b) ==
    LET leads == SelectSeq(b, LAMBDA x : x # UB2)
    IN [i \in 1..Len(leads) |-> IF leads[i] = UB1 THEN UCHAR ELSE leads[i]]

Digits == <<"0", "1", "2", "3", "4", "5", "6", "7", "8", "9">>

RECURSIVE NatToStr(_)
NatToStr(n) ==
    IF n < 10 THEN <<Digits[n + 1]>>
    ELSE NatToStr(n \div 10) \o <<Digits[(n % 10) + 1]>>

\* str(n) for an int
IntToStr(n) == IF n < 0 THEN <<"-">> \o NatToStr(0 - n) ELSE NatToStr(n)

-----------------------------------------------------------------------------
(* Hash functions.  SHA-256 is modelled as an injective function of its    *)
(* input: the digest lists one hex atom per input byte behind a fixed      *)
(* first atom, so it is never empty and holds no character of the format.  *)

HexAtom(b) == "h" \o b

Sha256Hex(b) == <<"sha:">> \o [i \in 1..Len(b) |-> HexAtom(b[i])]

-----------------------------------------------------------------------------
(* Python dicts: a sequence of <<key, value>> pairs in insertion order,    *)
(* each key once.                                                          *)

DictHas(d, k) == \E i \in 1..Len(d) : d[i][1] = k

\* d.get(k, default)
DictGet(d, k, default) ==
    IF DictHas(d, k)
    THEN d[CHOOSE i \in 1..Len(d) : d[i][1] = k][2]
    ELSE default

\* d[k] = v : an existing key keeps its place
DictSet(d, k, v) ==
    IF DictHas(d, k)
    THEN [i \in 1..Len(d) |-> IF d[i][1] = k THEN <<k, v>> ELSE d[i]]
    ELSE Append(d, <<k, v>>)

RECURSIVE DictUpdate(_, _)
\* d.update(e)
DictUpdate(d, e) ==
    IF e = <<>> THEN d
    ELSE DictUpdate(DictSet(d, Head(e)[1], Head(e)[2]), Tail(e))

RECURSIVE SelectPairs(_, _)
\* {k: v for k, v in d.items() if k not in excluded}
SelectPairs(d, excluded) ==
    IF d = <<>> THEN <<>>
    ELSE (IF Head(d)[1] \in excluded THEN <<>> ELSE <<Head(d)>>)
         \o SelectPairs(Tail(d), excluded)

-----------------------------------------------------------------------------
(* pfm/spec.py : limits and names *)

FORMAT_VERSION == <<"1", ".", "0">>
SUPPORTED_FORMAT_VERSIONS == {<<"1", ".", "0">>}
MAX_SECTIONS == 10000
MAX_META_FIELDS == 100
MAX_SECTION_NAME_LENGTH == 64
ALLOWED_SECTION_NAME_CHARS ==
    {"a", "b", "c", "d", "e", "f", "g", "h", "i", "j", "k", "l", "m", "n", "o",
     "p", "q", "r", "s", "t", "u", "v", "w", "x", "y", "z", "0", "1", "2", "3",
     "4", "5", "6", "7", "8", "9", "_", "-"}

K_id == <<"i", "d">>
K_agent == <<"a", "g", "e", "n", "t">>
K_model == <<"m", "o", "d", "e", "l">>
K_created == <<"c", "r", "e", "a", "t", "e", "d">>
K_checksum == <<"c", "h", "e", "c", "k", "s", "u", "m">>
K_parent == <<"p", "a", "r", "e", "n", "t">>
K_tags == <<"t", "a", "g", "s">>
K_version == <<"v", "e", "r", "s", "i", "o", "n">>

\* The standard metadata fields, in the order get_meta_dict visits them.
MetaKeys ==
    <<K_id, K_agent, K_model, K_created, K_checksum, K_parent, K_tags, K_version>>

META_ALLOWLIST == {MetaKeys[i] : i \in 1..Len(MetaKeys)}

\* The attribute of PFMDocument a standard metadata key names.
FieldOf(k) ==
    CASE k = K_id -> "id"
      [] k = K_agent -> "agent"
      [] k = K_model -> "model"
      [] k = K_created -> "created"
      [] k = K_checksum -> "checksum"
      [] k = K_parent -> "parent"
      [] k = K_tags -> "tags"
      [] k = K_version -> "version"

N_meta == <<"m", "e", "t", "a">>
N_index == <<"i", "n", "d", "e", "x">>
N_index_trailing == N_index \o <<"-", "t", "r", "a", "i", "l", "i", "n", "g">>

_RESERVED_SECTION_NAMES == {N_meta, N_index, N_index_trailing}

-----------------------------------------------------------------------------
(* pfm/document.py *)

\* PFMSection(name, content): offset and length default to 0.
PFMSection(name, content) ==
    [name |-> name, content |-> content, offset |-> 0, length |-> 0]

\* PFMDocument(): every field at its dataclass default.
PFMDocument ==
    [id |-> <<>>, agent |-> <<>>, model |-> <<>>, created |-> <<>>,
     checksum |-> <<>>, parent |-> <<>>, tags |-> <<>>, version |-> <<>>,
     custom_meta |-> <<>>, sections |-> <<>>, format_version |-> FORMAT_VERSION]

\* A plausible slip: the reserved names are not checked.
add_section_raises_no_reserved(d, name) ==
    \/ name = <<>>
    \/ Len(name) > MAX_SECTION_NAME_LENGTH
    \/ \E i \in 1..Len(name) : name[i] \notin ALLOWED_SECTION_NAME_CHARS
    \/ Len(d.sections) >= MAX_SECTIONS

\* Whether add_section(name, _) raises ValueError on document d.
add_section_raises(d, name) ==
    \/ name = <<>>
    \/ Len(name) > MAX_SECTION_NAME_LENGTH
    \/ \E i \in 1..Len(name) : name[i] \notin ALLOWED_SECTION_NAME_CHARS
    \/ name \in _RESERVED_SECTION_NAMES
    \/ Len(d.sections) >= MAX_SECTIONS

\* The document after add_section(name, content).
add_section(d, name, content) ==
    IF add_section_raises(d, name) THEN d
    ELSE [d EXCEPT !.sections = Append(@, PFMSection(name, content))]

\* The concatenation h.update() has been fed: every section's content.
ContentBytes(sections) ==
    Concat([i \in 1..Len(sections) |-> Encode(sections[i].content)])

\* A plausible slip: the digest of a hash object that was never updated.
compute_checksum_no_update(d) == Sha256Hex(<<>>)

compute_checksum(d) == Sha256Hex(ContentBytes(d.sections))

RECURSIVE StandardMeta(_, _)
\* The first loop of get_meta_dict: the non-empty standard fields from key
\* number i on.
StandardMeta(d, i) ==
    IF i > Len(MetaKeys) THEN <<>>
    ELSE (IF d[FieldOf(MetaKeys[i])] # <<>>
          THEN <<<<MetaKeys[i], d[FieldOf(MetaKeys[i])]>>>> ELSE <<>>)
         \o StandardMeta(d, i + 1)

get_meta_dict(d) == DictUpdate(StandardMeta(d, 1), d.custom_meta)

-----------------------------------------------------------------------------
(* pfm/writer.py : PFMWriter.serialize *)

TAB == "\t"
DEL == "DEL"

\* The characters below " " and "\x7f".
ControlChars == {NL, CR, TAB, DEL}

\* "".join(c for c in s if c >= " " and c != "\x7f")
Sanitize(s) == SelectSeq(s, LAMBDA c : c \notin ControlChars)

\* "#@<name>\n" as bytes
SectionHeaderLine(name) == Encode(SECTION_PREFIX \o name \o <<NL>>)

\* Pass 1: header line + escaped content + exactly one newline.
SectionBlob(sec) ==
    SectionHeaderLine(sec.name) \o Encode(escape_content(sec.content)) \o <<NL>>

\* f"{safe_key}: {safe_val}\n" for every item of the meta dict
MetaLines(meta) ==
    Concat([i \in 1..Len(meta) |->
        Encode(Sanitize(meta[i][1]) \o <<":", SP>> \o Sanitize(meta[i][2]) \o <<NL>>)])

\* Magic line, meta header and the meta lines, with the fresh checksum
\* stored into the local dict get_meta_dict returned.
HeaderBytes(d, checksum) ==
    Encode(MAGIC \o <<"/">> \o d.format_version \o <<NL>>)
    \o Encode(SECTION_PREFIX \o N_meta \o <<NL>>)
    \o MetaLines(DictSet(get_meta_dict(d), K_checksum, checksum))

IndexHeader == Encode(SECTION_PREFIX \o N_index \o <<NL>>)

RECURSIVE IndexEntries(_, _, _)
\* The inner loop over entry_info from section i on; running is the byte
\* offset of section i's header line.
IndexEntries(sections, i, running) ==
    IF i > Len(sections) THEN <<>>
    ELSE LET hlen == Len(SectionHeaderLine(sections[i].name))
             blen == Len(SectionBlob(sections[i]))
         IN Encode(sections[i].name \o <<SP>> \o IntToStr(running + hlen)
                   \o <<SP>> \o IntToStr(blen - hlen) \o <<NL>>)
            \o IndexEntries(sections, i + 1, running + blen)

\* One round: the index computed for a previous index of prevLen bytes.
IndexRound(sections, headerLen, prevLen) ==
    IndexHeader \o IndexEntries(sections, 1, headerLen + prevLen)

RECURSIVE IndexLoop(_, _, _, _)
\* "for _attempt in range(5)": the index_bytes the loop leaves behind.
IndexLoop(sections, headerLen, prevLen, attempt) ==
    LET index_bytes == IndexRound(sections, headerLen, prevLen)
    IN IF Len(index_bytes) = prevLen \/ attempt = 4 THEN index_bytes
       ELSE IndexLoop(sections, headerLen, Len(index_bytes), attempt + 1)

\* The bytes serialize returns.
SerializedBytes(d) ==
    LET header_bytes == HeaderBytes(d, compute_checksum(d))
    IN header_bytes
       \o IndexLoop(d.sections, Len(header_bytes), Len(IndexHeader), 0)
       \o Concat([i \in 1..Len(d.sections) |-> SectionBlob(d.sections[i])])
       \o Encode(EOF_MARKER \o <<NL>>)

\* A plausible slip (an earlier shape of the writer): the fresh checksum is
\* stored into the caller's document.
serialize_stores_checksum(d) ==
    [out |-> SerializedBytes(d),
     doc |-> [d EXCEPT !.checksum = compute_checksum(d)]]

\* serialize(doc): the returned bytes and the caller's document after the
\* call.  Every assignment of the function targets a local (checksum,
\* section_blobs, header, the dict get_meta_dict built, the index buffers).
serialize(d) == [out |-> SerializedBytes(d), doc |-> d]

-----------------------------------------------------------------------------
(* pfm/reader.py : PFMReader.parse *)

\* The characters str.strip() and str.split() treat as whitespace.
Whitespace == {SP, TAB, NL, CR}

RECURSIVE LStrip(_)
LStrip(s) == IF s # <<>> /\ Head(s) \in Whitespace THEN LStrip(Tail(s)) ELSE s

RECURSIVE RStrip(_)
RStrip(s) ==
    IF s # <<>> /\ s[Len(s)] \in Whitespace THEN RStrip(SubSeq(s, 1, Len(s) - 1))
    ELSE s

\* str.strip()
Strip(s) == RStrip(LStrip(s))

RECURSIVE ReplaceCRLF(_)
\* s.replace("\r\n", "\n") (the text is halved, never inside a "\r\n", so
\* that the evaluation stays shallow).
ReplaceCRLF(s) ==
    IF Len(s) <= 1 THEN s
    ELSE IF Len(s) = 2 THEN (IF s = <<CR, NL>> THEN <<NL>> ELSE s)
    ELSE LET mid == Len(s) \div 2
             cut == IF s[mid] = CR /\ s[mid + 1] = NL THEN mid + 1 ELSE mid
         IN ReplaceCRLF(SubSeq(s, 1, cut)) \o ReplaceCRLF(SubSeq(s, cut + 1, Len(s)))

\* s.replace("\r", "\n")
ReplaceCR(s) == [i \in 1..Len(s) |-> IF s[i] = CR THEN NL ELSE s[i]]

\* text.replace("\r\n", "\n").replace("\r", "\n")
NormalizeNewlines(s) == ReplaceCR(ReplaceCRLF(s))

\* The version a magic line names:
\* (line.split("/", 1)[1] if "/" in line else "1.0").split(":")[0]
ParsedVersion(ln) ==
    LET slash == IndexOfFrom(ln, "/", 1)
        version_part == IF slash = 0 THEN FORMAT_VERSION ELSE From(ln, slash)
    IN Split(version_part, ":")[1]

\* key, val = line.split(": ", 1), both stripped
MetaKey(ln) == Strip(SubSeq(ln, 1, FindSub(ln, <<":", SP>>, 1) - 1))
MetaVal(ln) == Strip(From(ln, FindSub(ln, <<":", SP>>, 1) + 1))

SkipSections == {N_meta, N_index, N_index_trailing}

\* The state of the parse loop.  current_section None and "" are the same
\* to every test the loop makes, so None is modelled as "".
ParseStart ==
    [doc |-> PFMDocument, current_section |-> <<>>, section_lines |-> <<>>,
     in_meta |-> FALSE, in_index |-> FALSE, hit_eof |-> FALSE, err |-> "none"]

\* doc.add_section(current_section, content) inside parse: a ValueError of
\* add_section leaves parse.
ParseAdd(st, content) ==
    IF add_section_raises(st.doc, st.current_section)
    THEN [st EXCEPT !.err = "ValueError"]
    ELSE [st EXCEPT !.doc = add_section(@, st.current_section, content)]

\* "Flush previous section" at a section header line.
ParseFlush(st) ==
    IF st.current_section # <<>> /\ st.current_section \notin SkipSections
    THEN ParseAdd(st, unescape_content(Join(st.section_lines, <<NL>>)))
    ELSE st

\* The meta branch for a line holding ": ".
ParseMeta(st, ln) ==
    LET key == MetaKey(ln)
        val == MetaVal(ln)
    IN IF key \in META_ALLOWLIST
       THEN (IF st.doc[FieldOf(key)] = <<>>
             THEN [st EXCEPT !.doc[FieldOf(key)] = val] ELSE st)
       ELSE IF DictHas(st.doc.custom_meta, key) THEN st
       ELSE IF Len(st.doc.custom_meta) >= MAX_META_FIELDS
            THEN [st EXCEPT !.err = "ValueError"]
       ELSE [st EXCEPT !.doc.custom_meta = Append(@, <<key, val>>)]

\* One iteration of "while i < len(lines)" on line ln, for an iteration
\* that does not break.
ParseLine(st, ln) ==
    IF StartsWith(ln, MAGIC)
    THEN (IF ParsedVersion(ln) \notin SUPPORTED_FORMAT_VERSIONS
          THEN [st EXCEPT !.err = "ValueError"]
          ELSE [st EXCEPT !.doc.format_version = ParsedVersion(ln)])
    ELSE IF StartsWith(ln, SECTION_PREFIX)
    THEN LET flushed == ParseFlush(st)
             section_name == From(ln, Len(SECTION_PREFIX))
         IN [flushed EXCEPT !.current_section = section_name,
                            !.section_lines = <<>>,
                            !.in_meta = (section_name = N_meta),
                            !.in_index = (section_name \in {N_index, N_index_trailing})]
    ELSE IF st.in_meta
    THEN (IF Contains(ln, <<":", SP>>) THEN ParseMeta(st, ln) ELSE st)
    ELSE IF st.in_index THEN st
    ELSE IF st.current_section # <<>>
    THEN [st EXCEPT !.section_lines = Append(@, ln)]
    ELSE st

RECURSIVE ParseLoop(_, _, _)
\* The while loop from line i on; it ends at the EOF marker, at the end of
\* the lines, or with an exception.
ParseLoop(lines, i, st) ==
    IF i > Len(lines) \/ st.err # "none" THEN st
    ELSE IF ~StartsWith(lines[i], MAGIC) /\ StartsWith(lines[i], EOF_MARKER)
    THEN [st EXCEPT !.hit_eof = TRUE]
    ELSE ParseLoop(lines, i + 1, ParseLine(st, lines[i]))

\* "Flush last section": the trailing newline is stripped only when no EOF
\* marker was hit.
ParseFinal(st) ==
    IF st.err # "none" THEN st
    ELSE IF st.current_section # <<>> /\ st.current_section \notin SkipSections
    THEN LET joined == Join(st.section_lines, <<NL>>)
             content == IF ~st.hit_eof /\ joined # <<>> /\ joined[Len(joined)] = NL
                        THEN SubSeq(joined, 1, Len(joined) - 1) ELSE joined
         IN ParseAdd(st, unescape_content(content))
    ELSE st

\* PFMReader.parse(data): status "ok" with the document, or the exception.
\* (The size check against MAX_FILE_SIZE never fires on bounded inputs.)
parse(data) ==
    IF ~DecodeOk(data) THEN [status |-> "UnicodeDecodeError", doc |-> PFMDocument]
    ELSE LET lines == Split(NormalizeNewlines(Decode(data)), NL)
             st == ParseFinal(ParseLoop(lines, 1, ParseStart))
         IN IF st.err # "none" THEN [status |-> st.err, doc |-> PFMDocument]
            ELSE [status |-> "ok", doc |-> st.doc]

-----------------------------------------------------------------------------
(* pfm/reader.py : PFMReader.open and PFMReaderHandle *)

RECURSIVE SplitWS(_)
\* str.split() with no argument: the runs of non-whitespace characters.
SplitWS(s) ==
    LET t == LStrip(s)
    IN IF t = <<>> THEN <<>>
       ELSE LET ends == {i \in 1..Len(t) : t[i] \in Whitespace}
                stop == IF ends = {} THEN Len(t) + 1
                        ELSE CHOOSE i \in ends : \A j \in ends : i <= j
            IN <<SubSeq(t, 1, stop - 1)>> \o SplitWS(SubSeq(t, stop, Len(t)))

DigitValue(c) == CHOOSE v \in 0..9 : Digits[v + 1] = c

IsDigit(c) == \E v \in 0..9 : Digits[v + 1] = c

RECURSIVE DigitsValue(_, _)
DigitsValue(s, acc) ==
    IF s = <<>> THEN acc ELSE DigitsValue(Tail(s), 10 * acc + DigitValue(Head(s)))

\* Whether int(s) succeeds: an optional sign and one or more digits.  (The
\* inputs hold no underscore and no non-ASCII digit, which int() also takes.)
IntOk(s) ==
    LET body == IF s # <<>> /\ Head(s) \in {"-", "+"} THEN Tail(s) ELSE s
    IN body # <<>> /\ \A i \in 1..Len(body) : IsDigit(body[i])

\* int(s), for s with IntOk
IntOf(s) ==
    IF Head(s) = "-" THEN 0 - DigitsValue(Tail(s), 0)
    ELSE IF Head(s) = "+" THEN DigitsValue(Tail(s), 0)
    ELSE DigitsValue(s, 0)

\* A plausible slip: the bounds check tests the offset alone.
IndexBoundsOk_offset_only(off, ln, file_size) == 0 <= off /\ off <= file_size

\* PFM-008: "0 <= off and off + ln <= self._file_size"
IndexBoundsOk(off, ln, file_size) == 0 <= off /\ off + ln <= file_size

\* PFMIndex.add for an index line split into parts, when the line is an
\* entry that parses and passes the bounds check; else the index as it is.
IndexAddLine(index, parts, file_size) ==
    IF /\ Len(parts) = 3
       /\ parts[1] # K_checksum
       /\ IntOk(parts[2])
       /\ IntOk(parts[3])
       /\ IndexBoundsOk(IntOf(parts[2]), IntOf(parts[3]), file_size)
    THEN Append(index, [name |-> parts[1], offset |-> IntOf(parts[2]),
                        length |-> IntOf(parts[3])])
    ELSE index

\* The lines readline() returns, without their "\n".
ReadLines(data) ==
    LET pieces == Split(data, NL)
    IN IF pieces[Len(pieces)] = <<>> THEN SubSeq(pieces, 1, Len(pieces) - 1)
       ELSE pieces

RECURSIVE RStripChar(_, _)
\* str.rstrip(c)
RStripChar(s, c) ==
    IF s # <<>> /\ s[Len(s)] = c THEN RStripChar(SubSeq(s, 1, Len(s) - 1), c) ELSE s

STREAM_FLAG == <<":", "S", "T", "R", "E", "A", "M">>

\* The handle PFMReaderHandle.__init__ builds; hs is the state of the
\* _parse_header loop.
HandleStart(data, file_size, kind) ==
    [data |-> data, file_size |-> file_size, kind |-> kind, meta |-> <<>>,
     index |-> <<>>, format_version |-> <<>>, current_section |-> <<>>,
     is_stream |-> FALSE, stop |-> FALSE, err |-> "none"]

\* The meta branch of _parse_header.
HeaderMeta(h, ln) ==
    LET key == MetaKey(ln)
    IN IF DictHas(h.meta, key) \/ Len(h.meta) >= MAX_META_FIELDS THEN h
       ELSE [h EXCEPT !.meta = Append(@, <<key, MetaVal(ln)>>)]

\* One iteration of the _parse_header loop on the raw line bytes lb.
HeaderLine(h, lb) ==
    IF ~DecodeOk(lb) THEN [h EXCEPT !.err = "UnicodeDecodeError"]
    ELSE LET ln == RStripChar(RStripChar(Decode(lb), NL), CR)
         IN IF StartsWith(ln, MAGIC)
            THEN (IF ParsedVersion(ln) \notin SUPPORTED_FORMAT_VERSIONS
                  THEN [h EXCEPT !.err = "ValueError"]
                  ELSE [h EXCEPT !.format_version = ParsedVersion(ln),
                                 !.is_stream = Contains(ln, STREAM_FLAG)])
            ELSE IF StartsWith(ln, SECTION_PREFIX)
            THEN LET section_name == From(ln, Len(SECTION_PREFIX))
                 IN [h EXCEPT !.current_section = section_name,
                              !.stop = (section_name \notin SkipSections)]
            ELSE IF h.current_section = N_meta /\ Contains(ln, <<":", SP>>)
            THEN HeaderMeta(h, ln)
            ELSE IF h.current_section \in {N_index, N_index_trailing}
            THEN [h EXCEPT !.index = IndexAddLine(@, SplitWS(Strip(ln)), h.file_size)]
            ELSE h

RECURSIVE HeaderLoop(_, _, _)
HeaderLoop(lines, i, h) ==
    IF i > Len(lines) \/ h.stop \/ h.err # "none" THEN h
    ELSE HeaderLoop(lines, i + 1, HeaderLine(h, lines[i]))

\* One line of the backward scan of _parse_trailing_index (a line that
\* neither is skipped nor ends the scan).
TrailingLine(h, ln) ==
    LET parts == SplitWS(Strip(ln))
    IN IF Len(parts) = 3 /\ parts[1] # K_checksum
       THEN [h EXCEPT !.index = IndexAddLine(@, parts, h.file_size)]
       ELSE IF Len(parts) = 2 /\ parts[1] = K_checksum
       THEN [h EXCEPT !.meta = DictSet(@, K_checksum, parts[2])]
       ELSE h

RECURSIVE TrailingLoop(_, _, _)
\* "for line in reversed(lines)" from line i down.
TrailingLoop(lines, i, h) ==
    IF i < 1 THEN h
    ELSE IF StartsWith(lines[i], EOF_MARKER) THEN TrailingLoop(lines, i - 1, h)
    ELSE IF StartsWith(lines[i], SECTION_PREFIX \o N_index_trailing) THEN h
    ELSE IF Strip(lines[i]) = <<>> THEN TrailingLoop(lines, i - 1, h)
    ELSE TrailingLoop(lines, i - 1, TrailingLine(h, lines[i]))

\* The tail window of _parse_trailing_index, in bytes.
TAIL_WINDOW == 65536

\* _parse_trailing_index
_parse_trailing_index(h) ==
    LET tail_size == IF h.file_size < TAIL_WINDOW THEN h.file_size ELSE TAIL_WINDOW
        tail == SubSeq(h.data, h.file_size - tail_size + 1, h.file_size)
    IN IF ~DecodeOk(tail) THEN [h EXCEPT !.err = "UnicodeDecodeError"]
       ELSE LET lines == Split(Decode(tail), NL)
            IN TrailingLoop(lines, Len(lines), h)

\* _parse_header
_parse_header(h0) ==
    LET h == HeaderLoop(ReadLines(h0.data), 1, h0)
    IN IF h.err = "none" /\ h.is_stream /\ h.index = <<>>
       THEN _parse_trailing_index(h) ELSE h

\* PFMReader.open on a file holding raw: the handle, with err naming the
\* exception when open raises.  (The size check never fires and the CRLF peek
\* of 4 KB covers the whole of a bounded file.)
open(raw) ==
    IF Contains(raw, <<CR, NL>>)
    THEN LET normalized == ReplaceCRLF(raw)
         IN _parse_header(HandleStart(normalized, Len(normalized), "BytesIO"))
    ELSE _parse_header(HandleStart(raw, Len(raw), "file"))

\* _read_raw: seek(offset), read(length).  A negative length reads to the
\* end of a BytesIO; a buffered file takes -1 so and rejects any other.
ReadRawRaises(h, offset, length) == h.kind = "file" /\ length < -1

_read_raw(h, offset, length) ==
    LET stop == IF length < 0 THEN Len(h.data)
                ELSE IF offset + length > Len(h.data) THEN Len(h.data)
                ELSE offset + length
    IN SubSeq(h.data, offset + 1, stop)

\* index.get(name) / index.get_all(name)
IndexGetAll(index, name) == SelectSeq(index, LAMBDA e : e.name = name)

\* The text of one indexed entry as get_section / get_sections return it:
\* decoded, one trailing newline stripped, unescaped.
EntryText(h, e) ==
    LET raw == Decode(_read_raw(h, e.offset, e.length))
    IN unescape_content(IF raw # <<>> /\ raw[Len(raw)] = NL
                        THEN SubSeq(raw, 1, Len(raw) - 1) ELSE raw)

EntryRaises(h, e) ==
    IF ReadRawRaises(h, e.offset, e.length) THEN "ValueError"
    ELSE IF ~DecodeOk(_read_raw(h, e.offset, e.length)) THEN "UnicodeDecodeError"
    ELSE "none"

\* PFMReaderHandle.get_section(name): status "None" for a missing name,
\* "ok" with the text, or the exception.
get_section(h, name) ==
    LET entries == IndexGetAll(h.index, name)
    IN IF entries = <<>> THEN [status |-> "None", text |-> <<>>]
       ELSE IF EntryRaises(h, entries[1]) # "none"
       THEN [status |-> EntryRaises(h, entries[1]), text |-> <<>>]
       ELSE [status |-> "ok", text |-> EntryText(h, entries[1])]

\* (offset, length) tuple order
EntryLess(e, f) == e.offset < f.offset \/ (e.offset = f.offset /\ e.length < f.length)

RECURSIVE SortEntries(_)
\* all_entries.sort(): ascending by (offset, length)
SortEntries(es) ==
    IF es = <<>> THEN <<>>
    ELSE LET m == CHOOSE i \in 1..Len(es) : \A j \in 1..Len(es) : ~EntryLess(es[j], es[i])
         IN <<es[m]>> \o SortEntries(SubSeq(es, 1, m - 1) \o SubSeq(es, m + 1, Len(es)))

\* What validate_checksum feeds the hash for one entry: the chunk without
\* its trailing newline, decoded, unescaped and encoded again.
ChunkHashed(h, e) ==
    LET chunk == _read_raw(h, e.offset, e.length)
        body == IF chunk # <<>> /\ chunk[Len(chunk)] = NL
                THEN SubSeq(chunk, 1, Len(chunk) - 1) ELSE chunk
    IN Encode(unescape_content(Decode(body)))

\* hmac.compare_digest on two str raises TypeError when one of them holds a
\* non-ASCII character.
IsAscii(s) == \A i \in 1..Len(s) : s[i] # UCHAR

\* PFMReaderHandle.validate_checksum(): status "ok" with the boolean, or the
\* exception.
validate_checksum(h) ==
    LET expected == DictGet(h.meta, K_checksum, <<>>)
        all_entries == SortEntries(h.index)
        raised == {EntryRaises(h, all_entries[i]) : i \in 1..Len(all_entries)} \ {"none"}
    IN IF expected = <<>> THEN [status |-> "ok", value |-> FALSE]
       ELSE IF raised # {}
       THEN [status |-> EntryRaises(h, all_entries[
                 Min({i \in 1..Len(all_entries) : EntryRaises(h, all_entries[i]) # "none"})]),
             value |-> FALSE]
       ELSE IF ~IsAscii(expected) THEN [status |-> "TypeError", value |-> FALSE]
       ELSE [status |-> "ok",
             value |-> Sha256Hex(Concat([i \in 1..Len(all_entries) |->
                            ChunkHashed(h, all_entries[i])])) = expected]

-----------------------------------------------------------------------------
(* pfm/security.py : HMAC signing, verification, integrity *)

K_signature == <<"s", "i", "g", "n", "a", "t", "u", "r", "e">>
K_sig_algo == <<"s", "i", "g", "_", "a", "l", "g", "o">>

\* The entries sign() stores and both sign() and verify() leave out of the
\* signed message.
SigKeys == {K_signature, K_sig_algo}

HMAC_SHA256 == <<"h", "m", "a", "c", "-", "s", "h", "a", "2", "5", "6">>

\* The characters metadata keys are made of, in code-point order.
CharOrder ==
    <<"-", "0", "1", "2", "3", "4", "5", "6", "7", "8", "9", "=", "_",
      "a", "b", "c", "d", "e", "f", "g", "h", "i", "j", "k", "l", "m",
      "n", "o", "p", "q", "r", "s", "t", "u", "v", "w", "x", "y", "z">>

Ord(c) == CHOOSE i \in 1..Len(CharOrder) : CharOrder[i] = c

\* s < t as Python compares str
StrLess(s, t) ==
    \E k \in 0..Len(s) :
        /\ k <= Len(t)
        /\ \A i \in 1..k : s[i] = t[i]
        /\ \/ k = Len(s) /\ k < Len(t)
           \/ k < Len(s) /\ k < Len(t) /\ Ord(s[k + 1]) < Ord(t[k + 1])

RECURSIVE SortedItems(_)
\* The items of a dict in the order "for key in sorted(meta.keys())" visits.
SortedItems(d) ==
    IF d = <<>> THEN <<>>
    ELSE LET m == CHOOSE i \in 1..Len(d) : \A j \in 1..Len(d) : ~StrLess(d[j][1], d[i][1])
         IN <<d[m]>> \o SortedItems(SubSeq(d, 1, m - 1) \o SubSeq(d, m + 1, Len(d)))

RECURSIVE StrCat(_)
StrCat(chars) == IF chars = <<>> THEN "" ELSE Head(chars) \o StrCat(Tail(chars))

\* One byte of a packed integer, as an atom of its own.
U8(n) == "u8:" \o StrCat(NatToStr(n))

\* struct.pack(">I", n): four bytes, most significant first.
Pack(n) ==
    <<U8((n \div 16777216) % 256), U8((n \div 65536) % 256),
      U8((n \div 256) % 256), U8(n % 256)>>

\* _append(data) on buf
_append(buf, data) == buf \o Pack(Len(data)) \o data

RECURSIVE AppendAll(_, _)
AppendAll(buf, fields) ==
    IF fields = <<>> THEN buf ELSE AppendAll(_append(buf, Head(fields)), Tail(fields))

\* A plausible slip: the message covers the format version and the sections
\* and leaves the metadata out.
_build_signing_message_no_meta(d) ==
    AppendAll(<<>>,
        <<Encode(d.format_version)>>
        \o Concat([i \in 1..Len(d.sections) |->
                      <<Encode(d.sections[i].name), Encode(d.sections[i].content)>>]))

\* _build_signing_message: format version, the "key=value" of every meta
\* entry in sorted key order, then every section's name and content.
_build_signing_message(d) ==
    LET meta == SortedItems(get_meta_dict(d))
    IN AppendAll(<<>>,
          <<Encode(d.format_version)>>
          \o [i \in 1..Len(meta) |-> Encode(meta[i][1] \o <<"=">> \o meta[i][2])]
          \o Concat([i \in 1..Len(d.sections) |->
                        <<Encode(d.sections[i].name), Encode(d.sections[i].content)>>]))

\* hmac.new(key, message, sha256).hexdigest(), modelled as an injective
\* function of key and message.
HmacHex(key, message) ==
    <<"mac:">> \o [i \in 1..Len(key) |-> HexAtom(key[i])] \o <<"|">>
    \o [i \in 1..Len(message) |-> HexAtom(message[i])]

\* hmac.compare_digest(a, b) on two str
compare_digest(a, b) ==
    IF ~IsAscii(a) \/ ~IsAscii(b) THEN [status |-> "TypeError", value |-> FALSE]
    ELSE [status |-> "ok", value |-> a = b]

\* The snapshot both sign() and verify() build the message from: a shallow
\* copy whose custom_meta is a new dict without the signature entries.
Snapshot(d) == [d EXCEPT !.custom_meta = SelectPairs(@, SigKeys)]

\* sign(doc, secret): the signature returned and the document afterwards.
sign(d, key) ==
    LET signature == HmacHex(Encode(key), _build_signing_message(Snapshot(d)))
    IN [signature |-> signature,
        doc |-> [d EXCEPT !.custom_meta =
                    DictSet(DictSet(@, K_signature, signature), K_sig_algo, HMAC_SHA256)]]

\* verify, first part: what the call does when no signature is stored.
verify_unsigned(require) ==
    IF require THEN [status |-> "ValueError", value |-> FALSE]
    ELSE [status |-> "ok", value |-> FALSE]

\* A plausible slip: the signature entries are popped from doc_copy's dict
\* in place, which is still the caller's dict after the shallow copy.
verify_snapshot_in_place(st) ==
    [st EXCEPT !.doc_copy.custom_meta = SelectPairs(@, SigKeys),
               !.doc.custom_meta = IF st.shared THEN SelectPairs(@, SigKeys) ELSE @]

\* verify, "doc_copy.custom_meta = {...}": the attribute of the copy is
\* bound to a new dict; the caller's dict is only read.
verify_snapshot(st) ==
    [st EXCEPT !.doc_copy.custom_meta = SelectPairs(st.doc.custom_meta, SigKeys),
               !.shared = FALSE]

\* verify, last part: the message of the snapshot, its HMAC, the comparison.
verify_compare(stored_sig, snapshot, key) ==
    compare_digest(stored_sig, HmacHex(Encode(key), _build_signing_message(snapshot)))

\* verify(doc, secret, require=...): the three parts above in sequence.
verify(d, key, require) ==
    LET stored_sig == DictGet(d.custom_meta, K_signature, <<>>)
        st == verify_snapshot([doc |-> d, doc_copy |-> d, shared |-> TRUE])
    IN IF stored_sig = <<>> THEN verify_unsigned(require)
       ELSE verify_compare(stored_sig, st.doc_copy, key)

\* A plausible slip (the behaviour before the PFM-005 fix): a document
\* without a checksum passes.
verify_integrity_fail_open(d) ==
    IF d.checksum = <<>> THEN [status |-> "ok", value |-> TRUE]
    ELSE compare_digest(d.checksum, compute_checksum(d))

\* verify_integrity(doc)
verify_integrity(d) ==
    IF d.checksum = <<>> THEN [status |-> "ok", value |-> FALSE]
    ELSE compare_digest(d.checksum, compute_checksum(d))

-----------------------------------------------------------------------------
(* Values of the variables a specification does not use *)

NoParse == [status |-> "none", doc |-> PFMDocument]
NoHandle == HandleStart(<<>>, 0, "none")
NoGot == [name |-> <<>>, lazy |-> [status |-> "none", text |-> <<>>],
          full |-> [status |-> "none", text |-> <<>>]]

EscIdle == line = <<>> /\ cur = <<>> /\ nEsc = 0 /\ nUn = 0

DocIdle ==
    /\ doc = PFMDocument /\ pre = PFMDocument
    /\ out = <<>> /\ file = <<>>
    /\ parsed = NoParse /\ handle = NoHandle /\ got = NoGot
    /\ pc = "idle"

NoCall == [op |-> "none", secret |-> <<>>, require |-> FALSE]
NoResult == [status |-> "none", value |-> FALSE]
NoCrafted == [kind |-> "none", entries |-> <<>>, checksum |-> "none"]

SecIdle ==
    /\ signed = PFMDocument /\ secret = <<>>
    /\ call = NoCall /\ before = PFMDocument
    /\ doc_copy = PFMDocument /\ shared = FALSE
    /\ result = NoResult /\ crafted = NoCrafted

\* A path where there is no file, and a file holding the bytes data of
\* which the first synced are known to be on the disk.
NoFile == [exists |-> FALSE, data |-> <<>>, synced |-> 0]
StoredFile(data) == [exists |-> TRUE, data |-> data, synced |-> Len(data)]
FsPaths == {"path", "bak", "tmp"}
NoFiles == [p \in FsPaths |-> NoFile]
NoWriter == [_sections |-> <<>>, _checksum |-> <<>>, _closed |-> FALSE]

FsIdle ==
    /\ fsys = NoFiles /\ pending = <<>> /\ w = NoWriter
    /\ orig = <<>> /\ written = <<>>
    /\ step = "idle" /\ outcome = "none"

-----------------------------------------------------------------------------
(* Files.  A file is its bytes as the operating system holds them (data)  *)
(* and how many of them, from the start, have reached the disk (synced).  *)
(* Bytes written to an open handle wait in the handle's buffer (pending)  *)
(* until flush() hands them to the operating system.                      *)

\* f.flush(): the buffer is handed over.
flush(f, buffered) == [f EXCEPT !.data = @ \o buffered]

\* A plausible slip: the file is renamed without having been fsynced.
fsync_skipped(f) == f

\* os.fsync(f.fileno())
fsync(f) == [f EXCEPT !.synced = Len(f.data)]

\* What a crash can leave of a file being written: the synced bytes for
\* certain, and any prefix of what was written after them, flushed or not.
CrashOutcomes(f, buffered) ==
    {[f EXCEPT !.data = SubSeq(f.data \o buffered, 1, k), !.synced = k] :
        k \in f.synced..(Len(f.data) + Len(buffered))}

-----------------------------------------------------------------------------
(* pfm/stream.py : PFMStreamWriter.  A writer with its file is a record:   *)
(* f the file at the path, buffered the handle's buffer, w the object's    *)
(* fields, raised the exception of the last call.                          *)

N_index_colon_trailing == N_index \o <<":", "t", "r", "a", "i", "l", "i", "n", "g">>

\* self._handle.tell(): the handle writes at the end of the file.
Tell(s) == Len(s.f.data) + Len(s.buffered)

\* _write_header: the magic line with the stream flag and the meta section;
\* doc_id and created are the uuid and the time of the call.
_write_header(doc_id, agent, model, created, custom_meta) ==
    MAGIC \o <<"/">> \o FORMAT_VERSION \o STREAM_FLAG \o <<NL>>
    \o SECTION_PREFIX \o N_meta \o <<NL>>
    \o Encode(K_id \o <<":", SP>> \o doc_id \o <<NL>>)
    \o (IF agent # <<>> THEN Encode(K_agent \o <<":", SP>> \o agent \o <<NL>>) ELSE <<>>)
    \o (IF model # <<>> THEN Encode(K_model \o <<":", SP>> \o model \o <<NL>>) ELSE <<>>)
    \o Encode(K_created \o <<":", SP>> \o created \o <<NL>>)
    \o Concat([i \in 1..Len(custom_meta) |->
                  Encode(custom_meta[i][1] \o <<":", SP>> \o custom_meta[i][2] \o <<NL>>)])

\* PFMStreamWriter(path, agent=..., model=..., **custom_meta) on a path that
\* is created or emptied: the header is written and flushed, not fsynced.
NewStream(doc_id, agent, model, created, custom_meta) ==
    [f |-> flush([exists |-> TRUE, data |-> <<>>, synced |-> 0],
                 _write_header(doc_id, agent, model, created, custom_meta)),
     buffered |-> <<>>,
     w |-> [_sections |-> <<>>, _checksum |-> <<>>, _closed |-> FALSE],
     raised |-> "none"]

\* self._handle.flush(); os.fsync(self._handle.fileno())
FlushAndSync(s) == [s EXCEPT !.f = fsync(flush(s.f, s.buffered)), !.buffered = <<>>]

\* write_section up to the flush: the header line and the escaped content
\* go to the handle, a newline is added when the content bytes lack one,
\* the section is recorded and the running checksum fed.
write_section_buffered(s, name, content) ==
    IF s.w._closed THEN [s EXCEPT !.raised = "RuntimeError"]
    ELSE LET header == SECTION_PREFIX \o Encode(name) \o <<NL>>
             content_bytes == Encode(escape_content(content))
             newline == IF content_bytes # <<>> /\ content_bytes[Len(content_bytes)] = NL
                        THEN <<>> ELSE <<NL>>
             offset == Tell(s) + Len(header)
             length == Len(content_bytes) + Len(newline)
         IN [s EXCEPT !.buffered = @ \o header \o content_bytes \o newline,
                      !.w._sections = Append(@, <<name, offset, length>>),
                      !.w._checksum = @ \o Encode(content),
                      !.raised = "none"]

\* A plausible slip: a closed writer goes on writing.
write_section_unguarded(s, name, content) ==
    FlushAndSync(write_section_buffered([s EXCEPT !.w._closed = FALSE], name, content))

\* A plausible slip: write_section returns without flush and fsync.
write_section_unflushed(s, name, content) ==
    write_section_buffered(s, name, content)

\* write_section(name, content)
write_section(s, name, content) ==
    IF s.w._closed THEN [s EXCEPT !.raised = "RuntimeError"]
    ELSE FlushAndSync(write_section_buffered(s, name, content))

\* close() up to the flush: the trailing index, the checksum line and the
\* EOF marker carrying the index offset.
close_buffered(s) ==
    LET index_offset == Tell(s)
        secs == s.w._sections
    IN [s EXCEPT !.buffered = @
            \o SECTION_PREFIX \o N_index_colon_trailing \o <<NL>>
            \o Concat([i \in 1..Len(secs) |->
                          Encode(secs[i][1]) \o <<SP>> \o IntToStr(secs[i][2])
                          \o <<SP>> \o IntToStr(secs[i][3]) \o <<NL>>])
            \o K_checksum \o <<SP>> \o Sha256Hex(s.w._checksum) \o <<NL>>
            \o EOF_MARKER \o <<":">> \o IntToStr(index_offset) \o <<NL>>,
                 !.raised = "none"]

\* close()
close(s) ==
    IF s.w._closed THEN [s EXCEPT !.raised = "none"]
    ELSE [FlushAndSync(close_buffered(s)) EXCEPT !.w._closed = TRUE]

-----------------------------------------------------------------------------
(* pfm/stream.py : _recover and the append branch of __init__ *)

\* A plausible slip: no backup is made.
copy2_skipped(files, src, dst) == files

\* shutil.copy2(src, dst)
copy2(files, src, dst) ==
    [files EXCEPT ![dst] = [exists |-> TRUE, data |-> files[src].data, synced |-> 0]]

\* The state of the scan; current holds current_section_name when it is
\* not None.
RecoverStart ==
    [byte_pos |-> 0, current |-> <<>>, current_content_start |-> 0, sections |-> <<>>]

\* "Flush previous section"
RecoverFlush(st) ==
    IF st.current = <<>> THEN st
    ELSE [st EXCEPT !.sections =
             Append(@, <<st.current[1], st.current_content_start,
                         st.byte_pos - st.current_content_start>>)]

\* One iteration of the scan loop.
RecoverLine(st, ln) ==
    LET line_bytes == Len(Encode(ln)) + 1
        section_tag == From(ln, Len(SECTION_PREFIX))
        seen ==
            IF StartsWith(ln, SECTION_PREFIX)
            THEN IF section_tag \in {N_meta, N_index, N_index_colon_trailing}
                 THEN [RecoverFlush(st) EXCEPT !.current = <<>>]
                 ELSE [RecoverFlush(st) EXCEPT !.current = <<section_tag>>,
                                               !.current_content_start = st.byte_pos + line_bytes]
            ELSE IF StartsWith(ln, EOF_MARKER) \/ StartsWith(ln, MAGIC)
            THEN [RecoverFlush(st) EXCEPT !.current = <<>>]
            ELSE st
    IN [seen EXCEPT !.byte_pos = @ + line_bytes]

RECURSIVE RecoverLoop(_, _, _)
RecoverLoop(st, lines, i) ==
    IF i > Len(lines) THEN st ELSE RecoverLoop(RecoverLine(st, lines[i]), lines, i + 1)

\* str.rfind(p): the last index (1-based) where p occurs in s, 0 if none.
RFind(s, p) ==
    LET hits == {i \in 1..(Len(s) - Len(p) + 1) : \A j \in 1..Len(p) : s[i + j - 1] = p[j]}
    IN IF hits = {} THEN 0 ELSE CHOOSE i \in hits : \A j \in hits : j <= i

\* "Strip any trailing index/EOF for appending"
TruncateAt(raw, text) ==
    LET rpos == RFind(text, SECTION_PREFIX \o N_index_colon_trailing)
        eof_pos == RFind(text, EOF_MARKER)
    IN IF rpos # 0 THEN Len(Encode(SubSeq(text, 1, rpos - 1)))
       ELSE IF eof_pos # 0 THEN Len(Encode(SubSeq(text, 1, eof_pos - 1)))
       ELSE Len(raw)

\* _recover(path) after the backup: the sections found and the file cut
\* at truncate_at; raw.decode raises on bytes that are not UTF-8.
_recover(f) ==
    IF ~DecodeOk(f.data) THEN [raised |-> "UnicodeDecodeError", f |-> f, sections |-> <<>>]
    ELSE LET text == Decode(f.data)
             truncate_at == TruncateAt(f.data, text)
         IN [raised |-> "none",
             f |-> [f EXCEPT !.data = SubSeq(f.data, 1, truncate_at),
                             !.synced = IF @ < truncate_at THEN @ ELSE truncate_at],
             sections |-> RecoverFlush(RecoverLoop(RecoverStart, Split(text, NL), 1)).sections]

\* PFMStreamWriter(path, append=True) on an existing file, after the
\* backup: the recovered writer, its running checksum fed with the bytes
\* of the recovered sections that lie within the file as it now is.
AppendStream(f) ==
    LET rec == _recover(f)
        raw == rec.f.data
        inside == SelectSeq(rec.sections,
                            LAMBDA e : 0 <= e[2] /\ e[2] + e[3] <= Len(raw))
    IN [f |-> rec.f, buffered |-> <<>>, raised |-> rec.raised,
        w |-> [_sections |-> rec.sections,
               _checksum |-> Concat([i \in 1..Len(inside) |->
                                        SubSeq(raw, inside[i][2] + 1, inside[i][2] + inside[i][3])]),
               _closed |-> FALSE]]

-----------------------------------------------------------------------------
(* Specification SpecEscape: the escaping functions applied to bounded     *)
(* lines, n escapes followed by n unescapes.                               *)

LineTokens ==
    {<<BS>>, SECTION_PREFIX, MAGIC, EOF_MARKER, <<"#">>, <<"!">>, <<"a">>, <<SP>>}

Lines == ConcatsUpTo(LineTokens, MaxLineTokens)

InitEscape ==
    /\ line \in Lines
    /\ cur = line
    /\ nEsc = 0
    /\ nUn = 0
    /\ DocIdle
    /\ SecIdle
    /\ FsIdle

EscapeStep ==
    /\ nUn = 0
    /\ nEsc < MaxDepth
    /\ cur' = escape_content_line(cur)
    /\ nEsc' = nEsc + 1
    /\ UNCHANGED <<line, nUn>>
    /\ UNCHANGED <<docVars, secVars>>

UnescapeStep ==
    /\ nUn < nEsc
    /\ cur' = unescape_content_line(cur)
    /\ nUn' = nUn + 1
    /\ UNCHANGED <<line, nEsc>>
    /\ UNCHANGED <<docVars, secVars>>

NextEscape == EscapeStep \/ UnescapeStep

SpecEscape == InitEscape /\ [][NextEscape /\ UNCHANGED fsVars]_vars

-----------------------------------------------------------------------------
(* Specification Spec: a document is built with add_section, then          *)
(* serialized and parsed, or written to a file and read back through both  *)
(* readers, or two of its sections are exchanged.                          *)

SectionNames == {<<"a">>, <<"b">>}

\* Section contents: empty, plain, newline-terminated, an escaped marker
\* line, carriage returns, a two-byte character.
Contents ==
    { <<>>,
      <<"a">>, <<"a", "a">>, <<"a", NL>>,
      <<BS>> \o EOF_MARKER,
      <<"a", CR, "b">>,
      <<"a", CR, NL, "b">>,
      <<UCHAR>> }

\* PFMDocument() and a document as PFMDocument.create(agent=..., k=...)
\* makes it, with an id and a timestamp, carrying a checksum that was
\* stored at some earlier time.
InitDocs ==
    { PFMDocument,
      [PFMDocument EXCEPT !.id = <<"7">>, !.agent = <<"g">>, !.created = <<"t">>,
                          !.checksum = <<"c">>,
                          !.custom_meta = << <<<<"k">>, <<"v">>>> >>] }

\* PFMDocument.get_section(name): the first section of that name.
doc_get_section(d, name) ==
    LET hits == SelectSeq(d.sections, LAMBDA sec : sec.name = name)
    IN IF hits = <<>> THEN [status |-> "None", text |-> <<>>]
       ELSE [status |-> "ok", text |-> hits[1].content]

\* The (name, content) pairs of a section list, in order.
Pairs(sections) ==
    [i \in 1..Len(sections) |-> <<sections[i].name, sections[i].content>>]

Init ==
    /\ EscIdle
    /\ SecIdle
    /\ FsIdle
    /\ doc \in InitDocs
    /\ pre = PFMDocument
    /\ out = <<>> /\ file = <<>>
    /\ parsed = NoParse /\ handle = NoHandle /\ got = NoGot
    /\ pc = "build"

AddSection(name, content) ==
    /\ pc = "build"
    /\ Len(doc.sections) < MaxSections
    /\ ~add_section_raises(doc, name)
    /\ doc' = add_section(doc, name, content)
    /\ UNCHANGED <<pre, out, file, parsed, handle, got, pc>>

Serialize ==
    /\ pc = "build"
    /\ pre' = doc
    /\ out' = serialize(doc).out
    /\ doc' = serialize(doc).doc
    /\ pc' = "serialized"
    /\ UNCHANGED <<file, parsed, handle, got>>

Parse ==
    /\ pc = "serialized"
    /\ parsed' = parse(out)
    /\ pc' = "parsed"
    /\ UNCHANGED <<doc, pre, out, file, handle, got>>

\* PFMWriter.write(doc, path): the file holds the serialization once the
\* temporary file has been renamed onto the path.
Write ==
    /\ pc = "build"
    /\ pre' = doc
    /\ file' = serialize(doc).out
    /\ doc' = serialize(doc).doc
    /\ pc' = "written"
    /\ UNCHANGED <<out, parsed, handle, got>>

\* PFMReader.read(path)
Read ==
    /\ pc = "written"
    /\ parsed' = parse(file)
    /\ pc' = "read"
    /\ UNCHANGED <<doc, pre, out, file, handle, got>>

\* PFMReader.open(path)
Open ==
    /\ pc = "read"
    /\ handle' = open(file)
    /\ pc' = "opened"
    /\ UNCHANGED <<doc, pre, out, file, parsed, got>>

\* handle.get_section(name) beside read(path).get_section(name)
GetSection(name) ==
    /\ pc = "opened"
    /\ got' = [name |-> name,
               lazy |-> IF handle.err # "none"
                        THEN [status |-> handle.err, text |-> <<>>]
                        ELSE get_section(handle, name),
               full |-> IF parsed.status # "ok"
                        THEN [status |-> parsed.status, text |-> <<>>]
                        ELSE doc_get_section(parsed.doc, name)]
    /\ pc' = "got"
    /\ UNCHANGED <<doc, pre, out, file, parsed, handle>>

\* The sections at positions i < j change places.
Swap(i, j) ==
    /\ pc = "build"
    /\ i < j /\ j <= Len(doc.sections)
    /\ pre' = doc
    /\ doc' = [doc EXCEPT !.sections = [@ EXCEPT ![i] = doc.sections[j],
                                                 ![j] = doc.sections[i]]]
    /\ pc' = "swapped"
    /\ UNCHANGED <<out, file, parsed, handle, got>>

Next ==
    \/ \E name \in SectionNames, content \in Contents : AddSection(name, content)
    \/ Serialize
    \/ Parse
    \/ Write
    \/ Read
    \/ Open
    \/ \E name \in SectionNames : GetSection(name)
    \/ \E i, j \in 1..MaxSections : Swap(i, j)

Spec == Init /\ [][Next /\ UNCHANGED <<escVars, secVars, fsVars>>]_vars

-----------------------------------------------------------------------------
(* Hand-made files for the lazy reader.  A file lists one or two index     *)
(* entries, in an inline "#@index" section, or after the content in a      *)
(* "#@index-trailing" section of a stream file, or after the content under *)
(* the header "#@index:trailing".  Offsets and lengths are written with    *)
(* two characters each, so the size of the file does not depend on them.   *)

CraftedKinds == {"inline", "trailing", "stream"}

OffsetTags == {"negative", "zero", "last", "size", "past"}

LengthTexts == {<<"-", "1">>, <<"0", "0">>, <<"0", "1">>, <<"0", "2">>}

CraftedEntries ==
    [name : {<<"a">>, <<"b">>}, offset : OffsetTags, length : LengthTexts]

CraftedEntryLists ==
    {<<e>> : e \in CraftedEntries} \cup {<<e, f>> : e, f \in CraftedEntries}

\* The offset a tag stands for in a file of the given size.
OffsetValue(tag, size) ==
    CASE tag = "negative" -> -1
      [] tag = "zero" -> 0
      [] tag = "last" -> size - 1
      [] tag = "size" -> size
      [] tag = "past" -> size + 1

\* The same offset as the file spells it.
OffsetText(tag, size) ==
    CASE tag = "negative" -> <<"-", "1">>
      [] tag = "zero" -> <<"0", "0">>
      [] OTHER -> NatToStr(OffsetValue(tag, size))

\* The length a length text stands for.
LengthValue(text) ==
    CASE text = <<"-", "1">> -> -1
      [] text = <<"0", "0">> -> 0
      [] text = <<"0", "1">> -> 1
      [] text = <<"0", "2">> -> 2

IndexLines(entries, size) ==
    Concat([i \in 1..Len(entries) |->
              entries[i].name \o <<SP>> \o OffsetText(entries[i].offset, size)
              \o <<SP>> \o entries[i].length \o <<NL>>])

\* The text of the file when the offsets are spelt for a file of "size".
CraftedText(kind, entries, checksum, size) ==
    LET magic == MAGIC \o <<"/">> \o FORMAT_VERSION
                 \o (IF kind = "inline" THEN <<>> ELSE STREAM_FLAG) \o <<NL>>
        meta == SECTION_PREFIX \o N_meta \o <<NL>> \o K_id \o <<":", SP, "7", NL>>
                \o (IF checksum = "meta" THEN K_checksum \o <<":", SP, "c", NL>> ELSE <<>>)
        body == SECTION_PREFIX \o <<"a", NL, "x", NL>>
        trailer == IF kind = "trailing" THEN SECTION_PREFIX \o N_index_trailing \o <<NL>>
                   ELSE SECTION_PREFIX \o N_index \o <<":", "t", "r", "a", "i", "l", "i", "n", "g", NL>>
    IN IF kind = "inline"
       THEN magic \o meta \o SECTION_PREFIX \o N_index \o <<NL>> \o IndexLines(entries, size)
            \o body \o EOF_MARKER \o <<NL>>
       ELSE magic \o meta \o body \o trailer \o IndexLines(entries, size)
            \o EOF_MARKER \o <<":", "0", "0", NL>>

\* The bytes of the file.  Every index line takes eight bytes, so the size
\* is known before the offsets are spelt.
CraftedFile(kind, entries, checksum) ==
    Encode(CraftedText(kind, entries, checksum,
                       Len(CraftedText(kind, <<>>, checksum, 10)) + 8 * Len(entries)))

-----------------------------------------------------------------------------
(* Specification SpecLazy: PFMReader.open on a hand-made file, then a      *)
(* lookup by name or validate_checksum.                                    *)

InitLazy ==
    /\ EscIdle
    /\ SecIdle
    /\ FsIdle
    /\ doc = PFMDocument /\ pre = PFMDocument
    /\ out = <<>> /\ file = <<>>
    /\ parsed = NoParse /\ handle = NoHandle /\ got = NoGot
    /\ pc = "lazy:new"

OpenCrafted(kind, entries, checksum) ==
    /\ pc = "lazy:new"
    /\ crafted' = [kind |-> kind, entries |-> entries, checksum |-> checksum]
    /\ file' = CraftedFile(kind, entries, checksum)
    /\ handle' = open(file')
    /\ pc' = "lazy:opened"
    /\ UNCHANGED <<doc, pre, out, parsed, got>>
    /\ UNCHANGED <<signed, secret, call, before, doc_copy, shared, result>>

LazyGetSection(name) ==
    /\ pc = "lazy:opened"
    /\ handle.err = "none"
    /\ got' = [name |-> name, lazy |-> get_section(handle, name), full |-> NoGot.full]
    /\ pc' = "lazy:got"
    /\ UNCHANGED <<doc, pre, out, file, parsed, handle>>
    /\ UNCHANGED secVars

LazyValidate ==
    /\ pc = "lazy:opened"
    /\ handle.err = "none"
    /\ call' = [NoCall EXCEPT !.op = "validate_checksum"]
    /\ result' = validate_checksum(handle)
    /\ pc' = "lazy:validated"
    /\ UNCHANGED <<doc, pre, out, file, parsed, handle, got>>
    /\ UNCHANGED <<signed, secret, before, doc_copy, shared, crafted>>

NextLazy ==
    \/ \E kind \in CraftedKinds, entries \in CraftedEntryLists :
          OpenCrafted(kind, entries, "meta")
    \/ \E name \in {<<"a">>, <<"b">>} : LazyGetSection(name)
    \/ LazyValidate

SpecLazy == InitLazy /\ [][NextLazy /\ UNCHANGED <<escVars, fsVars>>]_vars

-----------------------------------------------------------------------------
(* Specification SpecSec: a document is signed, then one thing about it is *)
(* changed, then verify runs step by step; or verify_integrity runs; or    *)
(* validate_checksum runs on a hand-made file.                             *)

Secrets == {<<"s">>, <<"t">>}

\* custom_meta of the documents: none, an ordinary entry, an entry under
\* the key of a standard field, a stale signature, a signature that is not
\* ASCII, an empty signature.
SecCustomMetas ==
    { <<>>,
      << <<<<"k">>, <<"v">>>> >>,
      << <<K_id, <<"9">>>> >>,
      << <<K_signature, <<"z">>>>, <<K_sig_algo, <<"x">>>> >>,
      << <<K_signature, <<UCHAR>>>> >>,
      << <<K_signature, <<>>>> >> }

SecSectionLists ==
    { <<>>,
      <<PFMSection(<<"a">>, <<"a">>)>>,
      <<PFMSection(<<"a">>, <<"a">>), PFMSection(<<"b">>, <<"a", "a">>)>>,
      <<PFMSection(<<"a">>, <<"a">>), PFMSection(<<"a">>, <<"a">>)>> }

\* Documents with no checksum, the right checksum, a wrong one.
SecDocs ==
    LET base == {[PFMDocument EXCEPT !.id = <<"7">>, !.agent = <<"g">>,
                                     !.custom_meta = cm, !.sections = secs] :
                    cm \in SecCustomMetas, secs \in SecSectionLists}
    IN base \cup {[d EXCEPT !.checksum = compute_checksum(d)] : d \in base}
            \cup {[d EXCEPT !.checksum = <<"z">>] : d \in base}

InitSec ==
    /\ EscIdle
    /\ SecIdle
    /\ FsIdle
    /\ doc \in SecDocs
    /\ pre = PFMDocument
    /\ out = <<>> /\ file = <<>>
    /\ parsed = NoParse /\ handle = NoHandle /\ got = NoGot
    /\ pc = "sec:new"

secFrame == <<pre, out, file, parsed, handle, got>>

Sign(key) ==
    /\ pc = "sec:new"
    /\ doc' = sign(doc, key).doc
    /\ signed' = sign(doc, key).doc
    /\ secret' = key
    /\ pc' = "sec:signed"
    /\ UNCHANGED secFrame
    /\ UNCHANGED <<call, before, doc_copy, shared, result, crafted>>

TamperKeys == {K_id, K_agent, K_checksum, K_tags}
TamperValues == {<<>>, <<"9">>, <<UCHAR>>}

\* doc.<field> = v
SetField(k, v) ==
    /\ pc = "sec:signed"
    /\ doc[FieldOf(k)] # v
    /\ doc' = [doc EXCEPT ![FieldOf(k)] = v]
    /\ pc' = "sec:changed"
    /\ UNCHANGED secFrame
    /\ UNCHANGED secVars

\* doc.custom_meta[k] = v for a key that is there
SetCustom(i, v) ==
    /\ pc = "sec:signed"
    /\ i <= Len(doc.custom_meta)
    /\ doc.custom_meta[i][2] # v
    /\ doc' = [doc EXCEPT !.custom_meta = DictSet(@, doc.custom_meta[i][1], v)]
    /\ pc' = "sec:changed"
    /\ UNCHANGED secFrame
    /\ UNCHANGED secVars

\* doc.sections[i].content = c
SetContent(i, c) ==
    /\ pc = "sec:signed"
    /\ i <= Len(doc.sections)
    /\ doc.sections[i].content # c
    /\ doc' = [doc EXCEPT !.sections[i].content = c]
    /\ pc' = "sec:changed"
    /\ UNCHANGED secFrame
    /\ UNCHANGED secVars

\* doc.sections[i], doc.sections[j] = doc.sections[j], doc.sections[i]
Reorder(i, j) ==
    /\ pc = "sec:signed"
    /\ i < j /\ j <= Len(doc.sections)
    /\ doc' = [doc EXCEPT !.sections = [@ EXCEPT ![i] = doc.sections[j],
                                                 ![j] = doc.sections[i]]]
    /\ pc' = "sec:changed"
    /\ UNCHANGED secFrame
    /\ UNCHANGED secVars

\* verify(doc, key, require=...), lines 71-75: the stored signature is
\* looked up; without one the call ends here.
VerifyCall(key, require) ==
    /\ pc \in {"sec:new", "sec:signed", "sec:changed"}
    /\ call' = [op |-> "verify", secret |-> key, require |-> require]
    /\ before' = doc
    /\ IF DictGet(doc.custom_meta, K_signature, <<>>) = <<>>
       THEN result' = verify_unsigned(require) /\ pc' = "sec:done"
       ELSE result' = NoResult /\ pc' = "verify:copy"
    /\ UNCHANGED doc
    /\ UNCHANGED secFrame
    /\ UNCHANGED <<signed, secret, doc_copy, shared, crafted>>

\* doc_copy = copy.copy(doc): the copy's custom_meta is the caller's dict.
VerifyCopy ==
    /\ pc = "verify:copy"
    /\ doc_copy' = doc
    /\ shared' = TRUE
    /\ pc' = "verify:snapshot"
    /\ UNCHANGED doc
    /\ UNCHANGED secFrame
    /\ UNCHANGED <<signed, secret, call, before, result, crafted>>

\* doc_copy.custom_meta = {k: v ... if k not in ("signature", "sig_algo")}
VerifySnapshot ==
    /\ pc = "verify:snapshot"
    /\ LET st == verify_snapshot([doc |-> doc, doc_copy |-> doc_copy, shared |-> shared])
       IN doc' = st.doc /\ doc_copy' = st.doc_copy /\ shared' = st.shared
    /\ pc' = "verify:compare"
    /\ UNCHANGED secFrame
    /\ UNCHANGED <<signed, secret, call, before, result, crafted>>

\* message, expected, return hmac.compare_digest(stored_sig, expected)
VerifyCompare ==
    /\ pc = "verify:compare"
    /\ result' = verify_compare(DictGet(before.custom_meta, K_signature, <<>>),
                                doc_copy, call.secret)
    /\ pc' = "sec:done"
    /\ UNCHANGED doc
    /\ UNCHANGED secFrame
    /\ UNCHANGED <<signed, secret, call, before, doc_copy, shared, crafted>>

\* verify_integrity(doc)
VerifyIntegrity ==
    /\ pc = "sec:new"
    /\ call' = [NoCall EXCEPT !.op = "verify_integrity"]
    /\ before' = doc
    /\ result' = verify_integrity(doc)
    /\ pc' = "sec:done"
    /\ UNCHANGED doc
    /\ UNCHANGED secFrame
    /\ UNCHANGED <<signed, secret, doc_copy, shared, crafted>>

\* PFMReader.open(path).validate_checksum() on a hand-made file (the
\* document plays no part; the step is taken beside the empty ones).
ValidateCrafted(kind, e, checksum) ==
    /\ pc = "sec:new"
    /\ doc.sections = <<>> /\ doc.custom_meta = <<>>
    /\ crafted' = [kind |-> kind, entries |-> <<e>>, checksum |-> checksum]
    /\ file' = CraftedFile(kind, <<e>>, checksum)
    /\ handle' = open(file')
    /\ call' = [NoCall EXCEPT !.op = "validate_checksum"]
    /\ result' = IF handle'.err # "none" THEN [status |-> handle'.err, value |-> FALSE]
                 ELSE validate_checksum(handle')
    /\ pc' = "sec:done"
    /\ UNCHANGED <<doc, pre, out, parsed, got>>
    /\ UNCHANGED <<signed, secret, before, doc_copy, shared>>

NextSec ==
    \/ \E key \in Secrets : Sign(key)
    \/ \E k \in TamperKeys, v \in TamperValues : SetField(k, v)
    \/ \E i \in 1..3, v \in TamperValues : SetCustom(i, v)
    \/ \E i \in 1..2, c \in {<<"b">>, <<"a", "a">>} : SetContent(i, c)
    \/ \E i, j \in 1..2 : Reorder(i, j)
    \/ \E key \in Secrets, require \in BOOLEAN : VerifyCall(key, require)
    \/ VerifyCopy
    \/ VerifySnapshot
    \/ VerifyCompare
    \/ VerifyIntegrity
    \/ \E kind \in CraftedKinds, e \in CraftedEntries, checksum \in {"none", "meta"} :
          ValidateCrafted(kind, e, checksum)

SpecSec == InitSec /\ [][NextSec /\ UNCHANGED <<escVars, fsVars>>]_vars

-----------------------------------------------------------------------------
(* Specification SpecPersist: a document whose stored checksum is current  *)
(* is signed, serialized, parsed back, and the parsed document verified.   *)

\* Metadata values: plain, with a space in the middle, with a space at an
\* end, with a newline in it.
PersistValues == {<<"g">>, <<"g", SP, "h">>, <<SP, "g">>, <<"g", NL>>}

PersistSectionLists ==
    { <<>>,
      <<PFMSection(<<"a">>, <<"a">>)>>,
      <<PFMSection(<<"a">>, <<"a", NL>>), PFMSection(<<"b">>, <<BS>> \o EOF_MARKER)>>,
      <<PFMSection(<<"a">>, <<"a", CR, "b">>)>>,
      <<PFMSection(<<"a">>, <<UCHAR>>), PFMSection(<<"a">>, <<>>)>> }

PersistDocs ==
    LET base == {[PFMDocument EXCEPT !.id = <<"7">>, !.agent = agent, !.created = <<"t">>,
                                     !.custom_meta = cm, !.sections = secs] :
                    agent \in PersistValues,
                    cm \in {<<>>} \cup {<< <<<<"k">>, v>> >> : v \in PersistValues},
                    secs \in PersistSectionLists}
    IN {[d EXCEPT !.checksum = compute_checksum(d)] : d \in base}

InitPersist ==
    /\ EscIdle
    /\ SecIdle
    /\ FsIdle
    /\ doc \in PersistDocs
    /\ pre = PFMDocument
    /\ out = <<>> /\ file = <<>>
    /\ parsed = NoParse /\ handle = NoHandle /\ got = NoGot
    /\ pc = "persist:new"

\* sign(doc, secret)
PersistSign(key) ==
    /\ pc = "persist:new"
    /\ doc' = sign(doc, key).doc
    /\ signed' = sign(doc, key).doc
    /\ secret' = key
    /\ pc' = "persist:signed"
    /\ UNCHANGED secFrame
    /\ UNCHANGED <<call, before, doc_copy, shared, result, crafted>>

\* data = PFMWriter.serialize(doc)
PersistSerialize ==
    /\ pc = "persist:signed"
    /\ out' = serialize(doc).out
    /\ doc' = serialize(doc).doc
    /\ pc' = "persist:serialized"
    /\ UNCHANGED <<pre, file, parsed, handle, got>>
    /\ UNCHANGED secVars

\* loaded = PFMReader.parse(data)
PersistParse ==
    /\ pc = "persist:serialized"
    /\ parsed' = parse(out)
    /\ pc' = "persist:parsed"
    /\ UNCHANGED <<doc, pre, out, file, handle, got>>
    /\ UNCHANGED secVars

\* verify(loaded, key)
PersistVerify(key) ==
    /\ pc = "persist:parsed"
    /\ call' = [op |-> "verify", secret |-> key, require |-> FALSE]
    /\ before' = parsed.doc
    /\ result' = IF parsed.status # "ok" THEN [status |-> parsed.status, value |-> FALSE]
                 ELSE verify(parsed.doc, key, FALSE)
    /\ pc' = "persist:verified"
    /\ UNCHANGED <<doc, pre, out, file, parsed, handle, got>>
    /\ UNCHANGED <<signed, secret, doc_copy, shared, crafted>>

NextPersist ==
    \/ \E key \in Secrets : PersistSign(key)
    \/ PersistSerialize
    \/ PersistParse
    \/ \E key \in Secrets : PersistVerify(key)

SpecPersist == InitPersist /\ [][NextPersist /\ UNCHANGED <<escVars, fsVars>>]_vars

-----------------------------------------------------------------------------
(* Specification SpecAdd: add_section is called with valid and invalid     *)
(* names on an empty document and on one that is one section short of      *)
(* MAX_SECTIONS.                                                           *)

MaxCalls == 2

\* Names: valid ones (the longest allowed among them), the empty name, one
\* that is one character too long, names with a character outside the
\* allowed set, the reserved names.
AddNames ==
    { <<"a">>, <<"z", "9", "-", "_">>, N_index \o <<"_">>,
      [i \in 1..MAX_SECTION_NAME_LENGTH |-> "a"],
      <<>>,
      [i \in 1..(MAX_SECTION_NAME_LENGTH + 1) |-> "a"],
      <<"A">>, <<"a", SP>>, <<"a", ":">>, <<UCHAR>>, <<"a", NL>>,
      N_meta, N_index, N_index_trailing }

AddContents == {<<"x">>, SECTION_PREFIX \o N_meta \o <<NL>>}

AlmostFull ==
    [PFMDocument EXCEPT !.sections = [i \in 1..(MAX_SECTIONS - 1) |-> PFMSection(<<"a">>, <<>>)]]

\* No add_section call made yet.
NoAdd == [op |-> "none", name |-> <<>>, content |-> <<>>, raised |-> "none", n |-> 0]

InitAdd ==
    /\ EscIdle
    /\ FsIdle
    /\ signed = PFMDocument /\ secret = <<>>
    /\ call = NoAdd /\ before = PFMDocument
    /\ doc_copy = PFMDocument /\ shared = FALSE
    /\ result = NoResult /\ crafted = NoCrafted
    /\ doc \in {PFMDocument, AlmostFull}
    /\ pre = PFMDocument
    /\ out = <<>> /\ file = <<>>
    /\ parsed = NoParse /\ handle = NoHandle /\ got = NoGot
    /\ pc = "add"

\* doc.add_section(name, content), returning or raising ValueError
TryAddSection(name, content) ==
    /\ pc = "add"
    /\ call.n < MaxCalls
    /\ pre' = doc
    /\ doc' = add_section(doc, name, content)
    /\ call' = [op |-> "add_section", name |-> name, content |-> content,
                raised |-> IF add_section_raises(doc, name) THEN "ValueError" ELSE "none",
                n |-> call.n + 1]
    /\ UNCHANGED pc
    /\ UNCHANGED <<out, file, parsed, handle, got>>
    /\ UNCHANGED <<signed, secret, before, doc_copy, shared, result, crafted>>

NextAdd == \E name \in AddNames, content \in AddContents : TryAddSection(name, content)

SpecAdd == InitAdd /\ [][NextAdd /\ UNCHANGED <<escVars, fsVars>>]_vars

-----------------------------------------------------------------------------
(* Specification SpecWrite: PFMWriter.write(doc, path) statement by        *)
(* statement, onto a path that holds nothing or an earlier document, with  *)
(* an I/O failure or a crash possible at every point.                      *)

WriteDocs ==
    { PFMDocument,
      add_section(PFMDocument, <<"a">>, <<"a", NL>>),
      add_section([PFMDocument EXCEPT !.id = <<"7">>], <<"b">>, <<UCHAR>>) }

\* What the path holds beforehand: nothing, or a complete earlier file.
Previous ==
    {NoFile, StoredFile(SerializedBytes(add_section(PFMDocument, <<"b">>, <<"o", "l", "d">>)))}

InitWrite ==
    /\ EscIdle
    /\ SecIdle
    /\ doc \in WriteDocs
    /\ pre = PFMDocument
    /\ out = <<>> /\ file = <<>>
    /\ parsed = NoParse /\ handle = NoHandle /\ got = NoGot
    /\ pc = "idle"
    /\ \E f \in Previous : fsys = [NoFiles EXCEPT !["path"] = f] /\ orig = f
    /\ pending = <<>>
    /\ w = NoWriter /\ written = <<>>
    /\ step = "write:start"
    /\ outcome = "none"

writeFrame == <<pre, file, parsed, handle, got, pc, w, orig, written>>

\* data = PFMWriter.serialize(doc)
WriteSerialize ==
    /\ step = "write:start"
    /\ out' = serialize(doc).out
    /\ doc' = serialize(doc).doc
    /\ step' = "write:serialized"
    /\ UNCHANGED <<fsys, pending, outcome>>
    /\ UNCHANGED writeFrame

\* fd, tmp_path = tempfile.mkstemp(...): an empty file beside the path.
Mkstemp ==
    /\ step = "write:serialized"
    /\ fsys' = [fsys EXCEPT !["tmp"] = StoredFile(<<>>)]
    /\ step' = "write:tmp"
    /\ UNCHANGED <<doc, out, pending, outcome>>
    /\ UNCHANGED writeFrame

\* mkstemp raises: nothing was created, nothing is cleaned up.
MkstempFails ==
    /\ step = "write:serialized"
    /\ step' = "write:raised"
    /\ outcome' = "OSError"
    /\ UNCHANGED <<doc, out, fsys, pending>>
    /\ UNCHANGED writeFrame

\* f.write(data)
WriteData ==
    /\ step = "write:tmp"
    /\ pending' = pending \o out
    /\ step' = "write:buffered"
    /\ UNCHANGED <<doc, out, fsys, outcome>>
    /\ UNCHANGED writeFrame

\* f.flush()
WriteFlush ==
    /\ step = "write:buffered"
    /\ fsys' = [fsys EXCEPT !["tmp"] = flush(@, pending)]
    /\ pending' = <<>>
    /\ step' = "write:flushed"
    /\ UNCHANGED <<doc, out, outcome>>
    /\ UNCHANGED writeFrame

\* os.fsync(f.fileno()), and the with block closes the file
WriteFsync ==
    /\ step = "write:flushed"
    /\ fsys' = [fsys EXCEPT !["tmp"] = fsync(@)]
    /\ step' = "write:synced"
    /\ UNCHANGED <<doc, out, pending, outcome>>
    /\ UNCHANGED writeFrame

\* os.replace(tmp_path, path) / os.rename(tmp_path, path); return len(data)
WriteRename ==
    /\ step = "write:synced"
    /\ fsys' = [fsys EXCEPT !["path"] = fsys["tmp"], !["tmp"] = NoFile]
    /\ step' = "write:done"
    /\ outcome' = "returned"
    /\ UNCHANGED <<doc, out, pending>>
    /\ UNCHANGED writeFrame

\* A statement of the try block raises (write, flush, fsync, replace): what
\* was written of the data stays in the temporary file, which the handler
\* unlinks unless unlink fails too; the exception is raised again.
WriteFails(k, unlinked) ==
    /\ step \in {"write:tmp", "write:buffered", "write:flushed", "write:synced"}
    /\ k <= Len(pending)
    /\ fsys' = [fsys EXCEPT !["tmp"] =
                    IF unlinked THEN NoFile ELSE flush(@, SubSeq(pending, 1, k))]
    /\ pending' = <<>>
    /\ step' = "write:raised"
    /\ outcome' = "OSError"
    /\ UNCHANGED <<doc, out>>
    /\ UNCHANGED writeFrame

\* The process or the machine stops.  The rename of a file whose directory
\* entry has not reached the disk may be lost with it.
WriteCrash ==
    /\ step \in {"write:serialized", "write:tmp", "write:buffered", "write:flushed",
                 "write:synced", "write:done"}
    /\ \E t \in CrashOutcomes(fsys["tmp"], pending),
          p \in CrashOutcomes(fsys["path"], <<>>),
          kept \in BOOLEAN :
          /\ step # "write:done" => kept
          /\ fsys' = IF kept THEN [fsys EXCEPT !["tmp"] = t, !["path"] = p]
                     ELSE [fsys EXCEPT !["tmp"] = p, !["path"] = orig]
    /\ pending' = <<>>
    /\ step' = "write:crashed"
    /\ UNCHANGED <<doc, out, outcome>>
    /\ UNCHANGED writeFrame

NextWrite ==
    \/ WriteSerialize
    \/ Mkstemp
    \/ MkstempFails
    \/ WriteData
    \/ WriteFlush
    \/ WriteFsync
    \/ WriteRename
    \/ \E k \in 0..Len(pending), unlinked \in BOOLEAN : WriteFails(k, unlinked)
    \/ WriteCrash

SpecWrite == InitWrite /\ [][NextWrite /\ UNCHANGED <<escVars, secVars>>]_vars

-----------------------------------------------------------------------------
(* Specification SpecStream: a PFMStreamWriter is made on a new path,      *)
(* sections are written, the writer is closed and used after that; the     *)
(* machine may stop between or inside the calls; the closed file is read   *)
(* back through both readers.                                              *)

\* At most this many write_section calls return on an open writer.
MaxWrites == 2

\* Section names given to write_section: two ordinary ones and a reserved one.
StreamNames == {<<"a">>, <<"b">>, N_meta}

\* Contents: without and with a final newline.
StreamContents == {<<"x">>, <<"y", NL>>}

\* The writer and its file as the variables hold them.
TheStream == [f |-> fsys["path"], buffered |-> pending, w |-> w, raised |-> "none"]

NoOutcome == [op |-> "none", raised |-> "none", n |-> 0]

\* PFMReaderHandle.get_sections(name)
get_sections(h, name) ==
    LET entries == IndexGetAll(h.index, name)
        bad == {i \in 1..Len(entries) : EntryRaises(h, entries[i]) # "none"}
    IN IF bad # {} THEN [status |-> EntryRaises(h, entries[Min(bad)]), texts |-> <<>>]
       ELSE [status |-> "ok", texts |-> [i \in 1..Len(entries) |-> EntryText(h, entries[i])]]

InitStream ==
    /\ EscIdle
    /\ SecIdle
    /\ DocIdle
    /\ fsys = NoFiles /\ pending = <<>> /\ w = NoWriter
    /\ orig = NoFile /\ written = <<>>
    /\ step = "stream:new"
    /\ outcome = NoOutcome

\* writer = PFMStreamWriter(path, agent=agent)
StreamNew(agent) ==
    /\ step = "stream:new"
    /\ LET s == NewStream(<<"7">>, agent, <<>>, <<"t">>, <<>>)
       IN fsys' = [fsys EXCEPT !["path"] = s.f] /\ pending' = s.buffered /\ w' = s.w
    /\ step' = "stream:open"
    /\ outcome' = [NoOutcome EXCEPT !.op = "__init__"]
    /\ UNCHANGED <<orig, written>>
    /\ UNCHANGED docVars

\* writer.write_section(name, content), returning or raising RuntimeError
StreamWriteSection(name, content) ==
    /\ step = "stream:open"
    /\ IF w._closed THEN outcome.n < MaxCalls ELSE Len(written) < MaxWrites
    /\ LET s == write_section(TheStream, name, content)
       IN /\ fsys' = [fsys EXCEPT !["path"] = s.f] /\ pending' = s.buffered /\ w' = s.w
          /\ outcome' = [op |-> "write_section", raised |-> s.raised,
                         n |-> IF w._closed THEN outcome.n + 1 ELSE 0]
          /\ written' = IF s.raised # "none" THEN written
                        ELSE Append(written, [name |-> name, content |-> content,
                                              at |-> Tell(TheStream)])
    /\ UNCHANGED <<orig, step>>
    /\ UNCHANGED docVars

\* writer.close()
StreamClose ==
    /\ step = "stream:open"
    /\ w._closed => outcome.n < MaxCalls
    /\ LET s == close(TheStream)
       IN /\ fsys' = [fsys EXCEPT !["path"] = s.f] /\ pending' = s.buffered /\ w' = s.w
          /\ outcome' = [op |-> "close", raised |-> s.raised,
                         n |-> IF w._closed THEN outcome.n + 1 ELSE 0]
    /\ UNCHANGED <<orig, written, step>>
    /\ UNCHANGED docVars

\* The machine stops while the writer s, with what it has buffered, is open.
CrashLeaves(s) ==
    /\ step = "stream:open"
    /\ ~w._closed
    /\ \E left \in CrashOutcomes(s.f, s.buffered) : fsys' = [fsys EXCEPT !["path"] = left]
    /\ pending' = <<>>
    /\ step' = "stream:crashed"
    /\ UNCHANGED <<w, orig, written, outcome>>
    /\ UNCHANGED docVars

\* The machine stops between two calls.
StreamCrash == CrashLeaves(TheStream)

\* The machine stops inside write_section(name, content), before it returns.
StreamCrashInWriteSection(name, content) ==
    /\ Len(written) < MaxWrites
    /\ CrashLeaves(write_section_buffered(TheStream, name, content))

\* The machine stops inside close(), before it returns.
StreamCrashInClose == CrashLeaves(close_buffered(TheStream))

\* PFMReader.read(path) and PFMReader.open(path) on the closed file
StreamRead ==
    /\ step = "stream:open"
    /\ w._closed
    /\ pc = "idle"
    /\ file' = fsys["path"].data
    /\ parsed' = parse(file')
    /\ handle' = open(file')
    /\ pc' = "read"
    /\ UNCHANGED <<doc, pre, out, got>>
    /\ UNCHANGED fsVars

\* handle.get_section(name) and handle.get_sections(name)
StreamGetSection(name) ==
    /\ pc = "read"
    /\ got' = [name |-> name,
               lazy |-> IF handle.err # "none"
                        THEN [status |-> handle.err, text |-> <<>>]
                        ELSE get_section(handle, name),
               all |-> IF handle.err # "none"
                       THEN [status |-> handle.err, texts |-> <<>>]
                       ELSE get_sections(handle, name)]
    /\ pc' = "got"
    /\ UNCHANGED <<doc, pre, out, file, parsed, handle>>
    /\ UNCHANGED fsVars

NextStream ==
    \/ \E agent \in {<<>>, <<"g">>} : StreamNew(agent)
    \/ \E name \in StreamNames, content \in StreamContents : StreamWriteSection(name, content)
    \/ StreamClose
    \/ StreamCrash
    \/ \E name \in StreamNames, content \in StreamContents :
          StreamCrashInWriteSection(name, content)
    \/ StreamCrashInClose
    \/ StreamRead
    \/ \E name \in StreamNames : StreamGetSection(name)

SpecStream == InitStream /\ [][NextStream /\ UNCHANGED <<escVars, secVars>>]_vars

-----------------------------------------------------------------------------
(* Specification SpecAppend: PFMStreamWriter(path, append=True) on a file  *)
(* an earlier writer left behind, closed or cut short by a crash; then     *)
(* sections are written and the writer is closed.                          *)

\* The earlier writer: no section or one section, the content plain, ending
\* in a newline, or holding the text of the EOF marker inside a line.
EarlierContents == {<<"x">>, <<"y", NL>>, <<"s", SP>> \o EOF_MARKER}

EarlierWriters ==
    LET new == NewStream(<<"7">>, <<"g">>, <<>>, <<"t">>, <<>>)
    IN {new} \cup {write_section(new, <<"a">>, c) : c \in EarlierContents}

\* What the earlier writer can have left at the path: a closed file, or
\* what a crash left between two calls, inside a write_section call or
\* inside close().
LeftFiles ==
    LET interrupted ==
            EarlierWriters
            \cup {write_section_buffered(s, <<"b">>, c) : s \in EarlierWriters, c \in EarlierContents}
            \cup {close_buffered(s) : s \in EarlierWriters}
    IN {StoredFile(close(s).f.data) : s \in EarlierWriters}
       \cup UNION {CrashOutcomes(s.f, s.buffered) : s \in interrupted}

InitAppend ==
    /\ EscIdle
    /\ SecIdle
    /\ DocIdle
    /\ \E f \in LeftFiles : fsys = [NoFiles EXCEPT !["path"] = f] /\ orig = f
    /\ pending = <<>> /\ w = NoWriter
    /\ written = <<>>
    /\ step = "append:new"
    /\ outcome = NoOutcome

\* _recover, first statement: shutil.copy2(path, backup_path)
AppendBackup ==
    /\ step = "append:new"
    /\ fsys' = copy2(fsys, "path", "bak")
    /\ step' = "append:backup"
    /\ UNCHANGED <<pending, w, orig, written, outcome>>

\* The rest of _recover and of __init__: the scan, the truncation, the
\* running checksum; or UnicodeDecodeError from raw.decode.
AppendRecover ==
    /\ step = "append:backup"
    /\ LET s == AppendStream(fsys["path"])
       IN /\ fsys' = [fsys EXCEPT !["path"] = s.f]
          /\ pending' = s.buffered
          /\ w' = IF s.raised = "none" THEN s.w ELSE w
          /\ outcome' = [NoOutcome EXCEPT !.op = "__init__", !.raised = s.raised]
          /\ step' = IF s.raised = "none" THEN "stream:open" ELSE "append:raised"
    /\ UNCHANGED <<orig, written>>

\* writer.write_section(name, content) on the open writer
AppendWriteSection(name, content) ==
    /\ step = "stream:open"
    /\ ~w._closed
    /\ Len(written) < MaxWrites
    /\ LET s == write_section(TheStream, name, content)
       IN /\ fsys' = [fsys EXCEPT !["path"] = s.f] /\ pending' = s.buffered /\ w' = s.w
          /\ outcome' = [NoOutcome EXCEPT !.op = "write_section", !.raised = s.raised]
    /\ written' = Append(written, [name |-> name, content |-> content, at |-> Tell(TheStream)])
    /\ UNCHANGED <<orig, step>>

\* writer.close() on the open writer
AppendClose ==
    /\ step = "stream:open"
    /\ ~w._closed
    /\ LET s == close(TheStream)
       IN /\ fsys' = [fsys EXCEPT !["path"] = s.f] /\ pending' = s.buffered /\ w' = s.w
          /\ outcome' = [NoOutcome EXCEPT !.op = "close", !.raised = s.raised]
    /\ UNCHANGED <<orig, written, step>>

NextAppend ==
    \/ AppendBackup
    \/ AppendRecover
    \/ \E content \in {<<"z">>, <<"w", NL>>} : AppendWriteSection(<<"b">>, content)
    \/ AppendClose

SpecAppend == InitAppend /\ [][NextAppend /\ UNCHANGED <<escVars, docVars, secVars>>]_vars

-----------------------------------------------------------------------------
(* Specification SpecIndex: pass 2 of PFMWriter.serialize round by round,  *)
(* on documents given by the sizes pass 1 computed.  The loop reads the    *)
(* section names, the byte lengths of the blobs and the byte length of the *)
(* header, and nothing else of the document, so that documents with        *)
(* contents of a million bytes are within reach.                           *)

\* len(header_bytes) of a document without metadata: the magic line (10
\* bytes), "#@meta\n" (7), "checksum: ", 64 hexadecimal digits and "\n" (75).
HEADER_LEN == 92

\* range(5)
INDEX_ATTEMPTS == 5

\* One element of entry_info for a section called name whose escaped
\* content encodes to n bytes: (name, content_len, blob_len).
entry_info(name, n) ==
    [name |-> name, content_len |-> n + 1,
     blob_len |-> Len(SectionHeaderLine(name)) + n + 1]

\* Section names by position.
IndexNames == <<<<"a">>, <<"b">>, <<"c">>, <<"d">>, <<"e">>>>

\* Content sizes by position: one byte, or a size that puts an offset next
\* to a power of ten.
IndexSizes == <<{1, 890}, {1, 8930}, {1, 89994}, {1, 899994}, {1, 900000}>>

\* The entry_info lists of the documents: up to five sections.
EntryInfos ==
    LET sizes(n) == {size \in [1..n -> UNION {IndexSizes[i] : i \in 1..5}] :
                        \A i \in 1..n : size[i] \in IndexSizes[i]}
    IN UNION {{[i \in 1..n |-> entry_info(IndexNames[i], size[i])] : size \in sizes(n)} :
                 n \in 0..5}

RECURSIVE IndexEntryLines(_, _, _)
\* "for name, content_len, blob_len in entry_info" from entry i on; running
\* is the byte offset of entry i's header line.
IndexEntryLines(info, i, running) ==
    IF i > Len(info) THEN <<>>
    ELSE LET section_header_len == Len(SectionHeaderLine(info[i].name))
             content_offset == running + section_header_len
         IN Encode(info[i].name \o <<SP>> \o IntToStr(content_offset)
                   \o <<SP>> \o IntToStr(info[i].content_len) \o <<NL>>)
            \o IndexEntryLines(info, i + 1, running + info[i].blob_len)

\* The locals of the loop before its first round: prev_index_bytes is the
\* index header.
IndexSeed ==
    [n |-> 0, prev_len |-> Len(IndexHeader), index_bytes |-> <<>>,
     converged |-> FALSE, starts |-> <<>>]

InitIndex ==
    /\ EscIdle
    /\ DocIdle
    /\ signed = PFMDocument /\ secret = <<>>
    /\ call \in {[op |-> "serialize", header_len |-> HEADER_LEN, entry_info |-> info] :
                    info \in EntryInfos}
    /\ before = PFMDocument
    /\ doc_copy = PFMDocument /\ shared = FALSE
    /\ result = NoResult /\ crafted = NoCrafted
    /\ fsys = NoFiles /\ pending = <<>> /\ w = NoWriter
    /\ orig = <<>> /\ written = <<>>
    /\ step = "index:loop"
    /\ outcome = IndexSeed

indexFrame ==
    <<signed, secret, call, before, doc_copy, shared, result, crafted,
      fsys, pending, w, orig, written>>

\* One round of the loop that ends with "prev_index_bytes = index_bytes".
IndexAttempt ==
    /\ step = "index:loop"
    /\ outcome.n < INDEX_ATTEMPTS
    /\ LET base_offset == call.header_len + outcome.prev_len
           index_bytes == IndexHeader \o IndexEntryLines(call.entry_info, 1, base_offset)
       IN /\ Len(index_bytes) # outcome.prev_len
          /\ outcome' = [outcome EXCEPT !.n = @ + 1, !.index_bytes = index_bytes,
                                        !.prev_len = Len(index_bytes)]
    /\ UNCHANGED step
    /\ UNCHANGED indexFrame

\* The round that finds the length unchanged and breaks.
IndexConverged ==
    /\ step = "index:loop"
    /\ outcome.n < INDEX_ATTEMPTS
    /\ LET base_offset == call.header_len + outcome.prev_len
           index_bytes == IndexHeader \o IndexEntryLines(call.entry_info, 1, base_offset)
       IN /\ Len(index_bytes) = outcome.prev_len
          /\ outcome' = [outcome EXCEPT !.n = @ + 1, !.index_bytes = index_bytes,
                                        !.converged = TRUE]
    /\ step' = "index:done"
    /\ UNCHANGED indexFrame

\* range(5) is exhausted: the loop ends without a break.
IndexExhausted ==
    /\ step = "index:loop"
    /\ outcome.n = INDEX_ATTEMPTS
    /\ step' = "index:done"
    /\ UNCHANGED outcome
    /\ UNCHANGED indexFrame

\* "Assemble final output": header_bytes, index_bytes and the blobs are
\* written one after the other; starts[i] is where the first byte after
\* blob i's header line lands in the returned bytes.
IndexAssemble ==
    /\ step = "index:done"
    /\ LET info == call.entry_info
           BlobsBefore[i \in 1..(Len(info) + 1)] ==
               IF i = 1 THEN 0 ELSE BlobsBefore[i - 1] + info[i - 1].blob_len
       IN outcome' = [outcome EXCEPT !.starts =
              [i \in 1..Len(info) |->
                  call.header_len + Len(outcome.index_bytes) + BlobsBefore[i]
                  + (info[i].blob_len - info[i].content_len)]]
    /\ step' = "index:assembled"
    /\ UNCHANGED indexFrame

NextIndex ==
    \/ IndexAttempt
    \/ IndexConverged
    \/ IndexExhausted
    \/ IndexAssemble

SpecIndex == InitIndex /\ [][NextIndex /\ UNCHANGED <<escVars, docVars>>]_vars

-----------------------------------------------------------------------------
(* Specification SpecTail: a PFMStreamWriter is made on a new path,        *)
(* sections are written, the writer is closed; the closed file is opened   *)
(* by the lazy reader and its checksum validated.                          *)

TailNames == {<<"a">>, <<"b">>}

\* Contents: plain; ending in a newline; a line that needs escaping; a
\* line of three fields, the last two numbers; a line of two fields, the
\* first being "checksum".
TailContents ==
    { <<"x">>,
      <<"y", NL>>,
      SECTION_PREFIX \o <<"z">>,
      <<"n", SP, "0", SP, "1">>,
      K_checksum \o <<SP, "z">> }

InitTail == InitStream

\* handle = PFMReader.open(path) on the closed file
TailOpen ==
    /\ step = "stream:open"
    /\ w._closed
    /\ pc = "idle"
    /\ file' = fsys["path"].data
    /\ handle' = open(file')
    /\ pc' = "opened"
    /\ UNCHANGED <<doc, pre, out, parsed, got>>
    /\ UNCHANGED secVars
    /\ UNCHANGED fsVars

\* handle.validate_checksum()
TailValidate ==
    /\ pc = "opened"
    /\ handle.err = "none"
    /\ call' = [NoCall EXCEPT !.op = "validate_checksum"]
    /\ result' = validate_checksum(handle)
    /\ pc' = "validated"
    /\ UNCHANGED <<doc, pre, out, file, parsed, handle, got>>
    /\ UNCHANGED <<signed, secret, before, doc_copy, shared, crafted>>
    /\ UNCHANGED fsVars

NextTail ==
    \/ StreamNew(<<"g">>) /\ UNCHANGED secVars
    \/ \E name \in TailNames, content \in TailContents :
          ~w._closed /\ StreamWriteSection(name, content) /\ UNCHANGED secVars
    \/ ~w._closed /\ StreamClose /\ UNCHANGED secVars
    \/ TailOpen
    \/ TailValidate

SpecTail == InitTail /\ [][NextTail /\ UNCHANGED escVars]_vars

-----------------------------------------------------------------------------
(* Specification SpecParse: PFMReader.parse on a hand-made file: a magic   *)
(* line, a meta block in which keys may repeat, and one section whose      *)
(* content is followed by nothing, by a newline, or by a newline and the   *)
(* EOF marker line.                                                        *)

\* Lines of the meta block: two allowlisted keys and a custom one, with an
\* empty value and with two different values.
MetaLineKeys == {K_agent, K_checksum, <<"k">>}
MetaLineValues == {<<>>, <<"a">>, <<"b">>}
CraftedMetaLines == [key : MetaLineKeys, val : MetaLineValues]

CraftedMetas ==
    {<<>>} \cup {<<l>> : l \in CraftedMetaLines}
    \cup {<<l, m>> : l, m \in CraftedMetaLines}

\* What follows the header line of the section: the content as the stream
\* writer leaves it on disk.
CraftedBodies == {<<"x">>, <<"x", NL>>, <<"x", NL, "y">>}

\* What follows the content: end of input, the newline the writers add, or
\* that newline and the EOF marker line.
CraftedEndings == {"cut", "newline", "eof"}

EndingText(ending) ==
    CASE ending = "cut" -> <<>>
      [] ending = "newline" -> <<NL>>
      [] ending = "eof" -> <<NL>> \o EOF_MARKER \o <<NL>>

CraftedParseFile(meta, body, ending) ==
    Encode(MAGIC \o <<"/">> \o FORMAT_VERSION \o <<NL>>
           \o SECTION_PREFIX \o N_meta \o <<NL>>
           \o Concat([i \in 1..Len(meta) |->
                         meta[i].key \o <<":", SP>> \o meta[i].val \o <<NL>>])
           \o SECTION_PREFIX \o <<"a", NL>> \o body \o EndingText(ending))

InitParse ==
    /\ EscIdle
    /\ SecIdle
    /\ FsIdle
    /\ doc = PFMDocument /\ pre = PFMDocument
    /\ out = <<>> /\ file = <<>>
    /\ parsed = NoParse /\ handle = NoHandle /\ got = NoGot
    /\ pc = "parse:new"

\* PFMReader.parse(data) on the hand-made bytes
ParseCrafted(meta, body, ending) ==
    /\ pc = "parse:new"
    /\ crafted' = [kind |-> "parse", meta |-> meta, body |-> body, ending |-> ending]
    /\ file' = CraftedParseFile(meta, body, ending)
    /\ parsed' = parse(file')
    /\ pc' = "parse:parsed"
    /\ UNCHANGED <<doc, pre, out, handle, got>>
    /\ UNCHANGED <<signed, secret, call, before, doc_copy, shared, result>>

NextParse ==
    \E meta \in CraftedMetas, body \in CraftedBodies, ending \in CraftedEndings :
        ParseCrafted(meta, body, ending)

SpecParse == InitParse /\ [][NextParse /\ UNCHANGED <<escVars, fsVars>>]_vars

-----------------------------------------------------------------------------
(* Specification SpecMeta: a document whose metadata holds newlines and    *)
(* marker text is serialized and the bytes parsed.                         *)

\* Custom keys, values of custom keys and values of the agent field:
\* plain, with a newline before marker text, beginning with marker text.
HostileKeys ==
    { <<"k">>, SECTION_PREFIX \o <<"a">>, EOF_MARKER,
      MAGIC \o <<"/", "9">>, <<NL>> \o SECTION_PREFIX \o <<"b">> }

HostileValues == {<<"v">>, <<"v", NL>> \o SECTION_PREFIX \o <<"a">>, EOF_MARKER}

HostileDocs ==
    {[PFMDocument EXCEPT !.agent = agent,
                         !.custom_meta = << <<key, val>> >>,
                         !.sections = <<PFMSection(<<"c">>, <<"x">>)>>] :
        agent \in HostileValues, key \in HostileKeys, val \in HostileValues}

InitMeta ==
    /\ EscIdle
    /\ SecIdle
    /\ FsIdle
    /\ doc \in HostileDocs
    /\ pre = PFMDocument
    /\ out = <<>> /\ file = <<>>
    /\ parsed = NoParse /\ handle = NoHandle /\ got = NoGot
    /\ pc = "build"

NextMeta ==
    \/ Serialize
    \/ Parse

SpecMeta == InitMeta /\ [][NextMeta /\ UNCHANGED <<escVars, secVars, fsVars>>]_vars

-----------------------------------------------------------------------------
(* Claims *)

\* C3: for every line s and every n >= 0, n applications of
\* escape_content_line followed by n applications of unescape_content_line
\* return s unchanged.
C3_EscapeUnescapeInverse == (nUn = nEsc) => (cur = line)

\* C3 witness: a line that already starts with a backslash followed by a
\* marker has been escaped twice and unescaped twice.
C3_Witness ==
    /\ nEsc = 2 /\ nUn = 2
    /\ StartsWith(line, <<BS>> \o SECTION_PREFIX)
    /\ cur = line

\* The claim's own reading of "after removing all leading backslashes the
\* line begins with a marker": some k leading characters are all
\* backslashes, the next one is not, and a marker starts there.
C4_Dangerous(s) ==
    \E k \in 0..Len(s) :
        /\ \A i \in 1..k : s[i] = BS
        /\ (k < Len(s) => s[k + 1] # BS)
        /\ \E m \in {SECTION_PREFIX, MAGIC, EOF_MARKER} :
              /\ Len(s) - k >= Len(m)
              /\ \A j \in 1..Len(m) : s[k + j] = m[j]

C1_RoundTrip ==
    (pc = "parsed") =>
        /\ parsed.status = "ok"
        /\ Pairs(parsed.doc.sections) = Pairs(doc.sections)

\* C2: for a file written by PFMWriter.write and every section name n in
\* it, the lazy get_section(n) returns the same string as the full-parse
\* read(path).get_section(n).content.
C2_LazyEqualsFull ==
    (pc = "got" /\ doc_get_section(doc, got.name).status = "ok") =>
        /\ got.lazy.status = "ok"
        /\ got.full.status = "ok"
        /\ got.lazy.text = got.full.text

\* The sections at positions i < j of pre have changed places in doc.
C5_Exchanged(i, j) ==
    /\ i < j /\ j <= Len(pre.sections)
    /\ doc.sections = [pre.sections EXCEPT ![i] = pre.sections[j],
                                           ![j] = pre.sections[i]]

C8_OutOfBounds(e) ==
    \/ OffsetValue(e.offset, Len(file)) < 0
    \/ OffsetValue(e.offset, Len(file)) + LengthValue(e.length) > Len(file)

\* The index entry such a line would make.
C8_Entry(e) ==
    [name |-> e.name, offset |-> OffsetValue(e.offset, Len(file)),
     length |-> LengthValue(e.length)]

\* C8: an index line whose offset is negative or whose offset + length
\* exceeds the file size is never in the usable index, on the inline and on
\* the trailing path; get_section for a name with only such lines returns
\* None; open raises nothing.
C8_OutOfBoundsNeverIndexed ==
    (pc \in {"lazy:opened", "lazy:got", "lazy:validated"}) =>
        /\ handle.err = "none"
        /\ \A i \in 1..Len(crafted.entries) :
              C8_OutOfBounds(crafted.entries[i]) =>
                  \A j \in 1..Len(handle.index) :
                      handle.index[j] # C8_Entry(crafted.entries[i])
        /\ (/\ pc = "lazy:got"
            /\ \E i \in 1..Len(crafted.entries) : crafted.entries[i].name = got.name
            /\ \A i \in 1..Len(crafted.entries) :
                  crafted.entries[i].name = got.name => C8_OutOfBounds(crafted.entries[i]))
              => got.lazy.status = "None"

\* C8 witness: a stream file whose trailing index lists a line with a
\* negative offset for one name and a line within bounds for another; the
\* second is indexed, the lookup of the first name returned None.
C8_Witness ==
    /\ pc = "lazy:got"
    /\ crafted.kind = "trailing"
    /\ Len(crafted.entries) = 2
    /\ crafted.entries[1].name = got.name
    /\ crafted.entries[1].offset = "negative"
    /\ crafted.entries[2].name # got.name
    /\ ~C8_OutOfBounds(crafted.entries[2])
    /\ handle.index = <<C8_Entry(crafted.entries[2])>>
    /\ got.lazy.status = "None"

\* verify(doc, secret) has returned or raised, for the document "before",
\* which was signed with "secret".
C9_Verified ==
    /\ pc = "sec:done" /\ call.op = "verify" /\ ~call.require
    /\ secret # <<>>

\* "before" is the signed document with the one standard field k changed.
C9_FieldChanged(k) ==
    /\ before[FieldOf(k)] # signed[FieldOf(k)]
    /\ before = [signed EXCEPT ![FieldOf(k)] = before[FieldOf(k)]]

\* "before" is the signed document with the value of custom_meta[k] changed.
C9_CustomChanged(k) ==
    /\ DictHas(signed.custom_meta, k)
    /\ DictHas(before.custom_meta, k)
    /\ DictGet(before.custom_meta, k, <<>>) # DictGet(signed.custom_meta, k, <<>>)
    /\ before = [signed EXCEPT !.custom_meta =
                    DictSet(@, k, DictGet(before.custom_meta, k, <<>>))]

\* "before" is the signed document with the content of one section changed.
C9_ContentChanged ==
    \E i \in 1..Len(signed.sections) :
        /\ Len(before.sections) = Len(signed.sections)
        /\ before.sections[i].content # signed.sections[i].content
        /\ before = [signed EXCEPT !.sections[i].content = before.sections[i].content]

\* "before" is the signed document with two sections in each other's place,
\* and its section sequence is another one.
C9_Reordered ==
    /\ before.sections # signed.sections
    /\ \E i, j \in 1..Len(signed.sections) :
          /\ i < j
          /\ before = [signed EXCEPT !.sections =
                          [@ EXCEPT ![i] = signed.sections[j], ![j] = signed.sections[i]]]

C9_CustomKeys(d) == {d.custom_meta[i][1] : i \in 1..Len(d.custom_meta)}

C10_VerifyNeverMutates ==
    (\/ pc \in {"verify:copy", "verify:snapshot", "verify:compare"}
     \/ pc = "sec:done" /\ call.op = "verify")
        => doc = before

\* C10 witness: verify has returned True on a signed document, which still
\* holds both signature entries.
C10_Witness ==
    /\ pc = "sec:done" /\ call.op = "verify"
    /\ result = [status |-> "ok", value |-> TRUE]
    /\ DictHas(doc.custom_meta, K_signature)
    /\ DictHas(doc.custom_meta, K_sig_algo)
    /\ doc = before

\* C11: when doc.checksum equals compute_checksum() before sign(doc, secret),
\* verifying the parsed serialization of the signed document returns True
\* with the signing secret and False with any other secret, whatever the
\* metadata values and the section contents.
C11_SignatureSurvivesPersistence ==
    pc = "persist:verified" =>
        result = [status |-> "ok", value |-> (call.secret = secret)]

\* C12: a call of add_section either appends exactly one section with the
\* given name and content at the end of the list, or raises ValueError and
\* leaves the list as it was; it raises exactly when the name is empty,
\* longer than 64 characters, holds a character other than a lowercase
\* letter, a digit, a hyphen or an underscore, is 'meta', 'index' or
\* 'index-trailing', or the document already holds MAX_SECTIONS sections.
\* So the list never exceeds MAX_SECTIONS and every name added is valid.
C12_NameChars ==
    {"a", "b", "c", "d", "e", "f", "g", "h", "i", "j", "k", "l", "m",
     "n", "o", "p", "q", "r", "s", "t", "u", "v", "w", "x", "y", "z",
     "0", "1", "2", "3", "4", "5", "6", "7", "8", "9", "-", "_"}

C12_ValidName(name) ==
    /\ Len(name) >= 1 /\ Len(name) <= 64
    /\ \A i \in 1..Len(name) : name[i] \in C12_NameChars
    /\ name \notin {<<"m", "e", "t", "a">>, <<"i", "n", "d", "e", "x">>,
                    <<"i", "n", "d", "e", "x", "-", "t", "r", "a", "i", "l", "i", "n", "g">>}

C12_AddSectionAppendsOrRaises ==
    /\ call.n > 0 =>
        /\ call.raised = "ValueError"
              <=> (~C12_ValidName(call.name) \/ Len(pre.sections) >= 10000)
        /\ call.raised = "ValueError" => doc.sections = pre.sections
        /\ call.raised = "none" =>
              /\ Len(doc.sections) = Len(pre.sections) + 1
              /\ SubSeq(doc.sections, 1, Len(pre.sections)) = pre.sections
              /\ doc.sections[Len(doc.sections)].name = call.name
              /\ doc.sections[Len(doc.sections)].content = call.content
    /\ Len(doc.sections) <= 10000
    /\ \A i \in 1..Len(doc.sections) : C12_ValidName(doc.sections[i].name)

\* Both outcomes have happened: a section was appended as the 10000th, and
\* a call on the full document raised.
C12_Witness ==
    /\ call.n = 2
    /\ call.raised = "ValueError"
    /\ C12_ValidName(call.name)
    /\ Len(doc.sections) = 10000
    /\ doc.sections[10000].name # <<"a">>

\* C14: PFMWriter.write is atomic with respect to crashes and I/O failures:
\* at every point of the operation (temporary file creation, write, flush,
\* fsync, rename) and after a failure or a crash at any of them, the
\* destination path holds nothing, or the complete previous contents, or
\* the complete new serialization; the rename has happened only with the
\* temporary file fully written and fsynced.
C14_WriteIsAtomic ==
    LET dest == fsys["path"]
    IN /\ \/ ~dest.exists
          \/ dest = orig
          \/ dest.data = SerializedBytes(doc)
       /\ step = "write:done" =>
             /\ dest.exists
             /\ dest.data = SerializedBytes(doc)
             /\ dest.synced = Len(dest.data)
             /\ ~fsys["tmp"].exists

\* The machine stopped after the rename onto a path that held an earlier
\* file, and the path holds the new serialization.
C14_Witness ==
    /\ step = "write:crashed"
    /\ orig.exists
    /\ fsys["path"].data = SerializedBytes(doc)
    /\ fsys["path"] # orig

\* C13: the reserved names 'meta', 'index' and 'index-trailing', and any
\* name that is not 1 to 64 characters of lowercase letters, digits,
\* hyphens and underscores, never become the name of a user section in a
\* file: PFMStreamWriter.write_section rejects them as
\* PFMDocument.add_section does, so every section header the stream writer
\* has written carries a valid name.
C13_StreamRejectsReservedNames ==
    \A i \in 1..Len(written) : C12_ValidName(written[i].name)

\* The lines of the file at the path.
C15_Lines(files) == Split(files["path"].data, NL)

\* What holds of a closed writer and its file: the last call on it, if one
\* was made after close(), raised RuntimeError (write_section) or returned
\* (close); the file holds one trailing index header, one checksum line
\* and one EOF marker.
C15_Closed(wr, last, files) ==
    wr._closed =>
        LET lines == C15_Lines(files)
        IN  /\ last.n > 0 =>
                  /\ last.op = "write_section" => last.raised = "RuntimeError"
                  /\ last.op = "close" => last.raised = "none"
            /\ Cardinality({i \in 1..Len(lines) :
                   lines[i] = <<"#", "@", "i", "n", "d", "e", "x", ":",
                                "t", "r", "a", "i", "l", "i", "n", "g">>}) = 1
            /\ Cardinality({i \in 1..Len(lines) :
                   StartsWith(lines[i], <<"c", "h", "e", "c", "k", "s", "u", "m", " ">>)}) = 1
            /\ Cardinality({i \in 1..Len(lines) :
                   StartsWith(lines[i], <<"#", "!", "E", "N", "D">>)}) = 1

\* C15: once close() has completed, every write_section call raises
\* RuntimeError and every close() call returns without effect; neither
\* changes the bytes of the file or the recorded section list; the trailing
\* index, the checksum line and the EOF marker are in the file exactly once.
C15_ClosedWriterIsInert ==
    [][/\ w._closed =>
             /\ fsys' = fsys /\ pending' = pending
             /\ w' = w /\ written' = written
       /\ C15_Closed(w', outcome', fsys')]_vars

\* Two calls have been made on the closed writer, the last a write_section.
C15_Witness ==
    /\ w._closed
    /\ outcome.n = 2
    /\ outcome.op = "write_section"
    /\ Len(written) = 1

\* What write_section(name, content) puts into the file: the header line
\* and the escaped content, closed by a newline.
C16_OnDisk(name, content) ==
    LET body == Encode(escape_content(content))
    IN <<"#", "@">> \o Encode(name) \o <<NL>> \o body
       \o (IF body # <<>> /\ body[Len(body)] = NL THEN <<>> ELSE <<NL>>)

\* C16: when a write_section call has returned, the header block and the
\* complete header line and content of every section written so far are
\* flushed and fsynced, and whatever happens later, a crash before or
\* inside a later call included, the file still holds all those sections
\* in full and in the order they were written.
C16_WrittenSectionsAreDurable ==
    (step \in {"stream:open", "stream:crashed"} /\ written # <<>>) =>
        LET f == fsys["path"]
            end(i) == written[i].at + Len(C16_OnDisk(written[i].name, written[i].content))
        IN /\ StartsWith(f.data, <<"#", "!", "P", "F", "M", "/", "1", ".", "0", ":",
                                    "S", "T", "R", "E", "A", "M", NL, "#", "@", "m", "e", "t", "a", NL>>)
           /\ f.data[written[1].at] = NL
           /\ \A i \in 1..Len(written) :
                 /\ end(i) <= f.synced
                 /\ SubSeq(f.data, written[i].at + 1, end(i))
                       = C16_OnDisk(written[i].name, written[i].content)
                 /\ i < Len(written) => end(i) <= written[i + 1].at
           /\ step = "stream:open" => (pending = <<>> /\ f.synced = Len(f.data))

\* The machine stopped inside a later call: the file ends with a part of
\* what that call was writing, behind the section that had been written.
C16_Witness ==
    /\ step = "stream:crashed"
    /\ Len(written) = 1
    /\ Len(fsys["path"].data) >
          written[1].at + Len(C16_OnDisk(written[1].name, written[1].content))

\* C17: for write_section calls with valid names followed by close(), the
\* full-parse reader accepts the file and returns exactly the written
\* (name, content) pairs in order; the trailing index block, the checksum
\* line and the EOF marker never show up as a section.
C17_StreamFileParsesBack ==
    (pc \in {"read", "got"} /\ \A i \in 1..Len(written) : C12_ValidName(written[i].name)) =>
        /\ parsed.status = "ok"
        /\ Pairs(parsed.doc.sections)
              = [i \in 1..Len(written) |-> <<written[i].name, written[i].content>>]

\* C18: when a writer is opened with append=True on an existing file, a
\* backup at <path>.bak holding the byte-exact contents the file had before
\* recovery exists before the original is truncated or written to, and it
\* still holds them after the recovery scan, the truncation and every later
\* write_section or close of that session.
C18_BackupHoldsOriginal ==
    LET bak == fsys["bak"]
    IN /\ fsys["path"].data # orig.data => (bak.exists /\ bak.data = orig.data)
       /\ step # "append:new" => (bak.exists /\ bak.data = orig.data)

\* The recovery cut the file, a section was appended and the writer closed.
C18_Witness ==
    /\ step = "stream:open"
    /\ w._closed
    /\ written # <<>>
    /\ written[1].at < Len(orig.data)
    /\ fsys["bak"].data # fsys["path"].data

\* C19: after an existing streamed file has been opened in append mode,
\* whether it was cleanly closed, crashed between sections or cut in the
\* middle of a content line, every section header that write_section then
\* writes starts at the beginning of a line, and no stale trailing index
\* or EOF marker precedes it.  (Stated for files that hold the whole
\* header block, whose last line is the 'created' line.)
C19_AppendedHeadersStartLines ==
    (step = "stream:open" /\ Contains(orig.data, <<"c", "r", "e", "a", "t", "e", "d", ":", " ", "t", NL>>)) =>
        \A i \in 1..Len(written) :
            LET data == fsys["path"].data
                earlier == Split(SubSeq(data, 1, written[i].at), NL)
            IN /\ written[i].at = 0 \/ data[written[i].at] = NL
               /\ \A k \in 1..Len(earlier) :
                     /\ earlier[k] # <<"#", "@", "i", "n", "d", "e", "x", ":",
                                       "t", "r", "a", "i", "l", "i", "n", "g">>
                     /\ ~StartsWith(earlier[k], <<"#", "!", "E", "N", "D">>)


\* A content as a by-name lookup hands it back: without one final newline.
C20_Stored(content) ==
    IF content # <<>> /\ content[Len(content)] = NL
    THEN SubSeq(content, 1, Len(content) - 1) ELSE content

\* C20: the by-name accessors are first-match on every access path; on a
\* streamed file read through the lazy handle, get_section(n) returns the
\* first section named n in on-disk order and get_sections(n) all of them
\* in that order.
C20_LazyLookupIsFirstMatch ==
    (pc = "got" /\ \A i \in 1..Len(written) : C12_ValidName(written[i].name)) =>
        LET hits == SelectSeq(written, LAMBDA x : x.name = got.name)
        IN hits # <<>> =>
              /\ got.lazy = [status |-> "ok", text |-> C20_Stored(hits[1].content)]
              /\ got.all = [status |-> "ok",
                            texts |-> [i \in 1..Len(hits) |-> C20_Stored(hits[i].content)]]


\* The index lines of the assembled output, each split into its fields.
C21_IndexLines ==
    LET lines == ReadLines(outcome.index_bytes)
    IN [i \in 1..(Len(lines) - 1) |-> SplitWS(lines[i + 1])]

\* C21: the index block serialize returns is self-consistent: the loop left
\* at a fixed point (the last round found the index length unchanged), and
\* every index line carries the position in the returned bytes of the first
\* byte after its section's header line, and the byte length of the escaped
\* content plus the terminating newline.
C21_IndexIsSelfConsistent ==
    step = "index:assembled" =>
        /\ outcome.converged
        /\ Len(C21_IndexLines) = Len(call.entry_info)
        /\ \A i \in 1..Len(call.entry_info) :
              /\ C21_IndexLines[i][1] = call.entry_info[i].name
              /\ IntOf(C21_IndexLines[i][2]) = outcome.starts[i]
              /\ IntOf(C21_IndexLines[i][3]) = call.entry_info[i].content_len

\* The entries the stream writer recorded, as the reader's index holds them.
C22_Recorded ==
    {[name |-> w._sections[i][1], offset |-> w._sections[i][2], length |-> w._sections[i][3]] :
        i \in 1..Len(w._sections)}

\* C22: on a closed stream file the lazy reader's index holds exactly the
\* entries the stream writer recorded and meta["checksum"] is the value of
\* the writer's checksum line: no line of a section's content or of the
\* metadata block is taken for an index entry or for the checksum.
C22_TailScanStopsAtIndexHeader ==
    (pc = "opened" /\ handle.err = "none") =>
        /\ {handle.index[i] : i \in 1..Len(handle.index)} = C22_Recorded
        /\ Len(handle.index) = Len(w._sections)
        /\ DictGet(handle.meta, K_checksum, <<>>) = Sha256Hex(w._checksum)

\* C23: validate_checksum() returns True on every file a PFMStreamWriter
\* produced through write_section calls and close().
C23_StreamChecksumValidates ==
    pc = "validated" => result = [status |-> "ok", value |-> TRUE]

\* The lines of the file the append session found, and the byte offset at
\* which line i starts.
C24_Lines == Split(Decode(orig.data), NL)

C24_LineStart(i) ==
    Len(Encode(Concat([j \in 1..(i - 1) |-> C24_Lines[j] \o <<NL>>])))

\* A line the scan recognises as a marker.
C24_IsMarker(ln) ==
    StartsWith(ln, SECTION_PREFIX) \/ StartsWith(ln, EOF_MARKER) \/ StartsWith(ln, MAGIC)

\* The lines that are headers of content sections, in file order.
C24_Headers ==
    LET hs == {i \in 1..Len(C24_Lines) :
                  /\ StartsWith(C24_Lines[i], SECTION_PREFIX)
                  /\ From(C24_Lines[i], Len(SECTION_PREFIX))
                        \notin {N_meta, N_index, N_index_trailing, N_index_colon_trailing}}
    IN [k \in 1..Cardinality(hs) |->
           CHOOSE i \in hs : Cardinality({j \in hs : j < i}) = k - 1]

\* The entry the claim describes for the header at line i: the bytes
\* present between the end of the header line and the next marker or the
\* end of the file.
C24_Entry(i) ==
    LET offset == C24_LineStart(i + 1)
        stops == {C24_LineStart(j) : j \in {k \in (i + 1)..Len(C24_Lines) :
                                              C24_IsMarker(C24_Lines[k])}}
                 \cup {Len(orig.data)}
    IN <<From(C24_Lines[i], Len(SECTION_PREFIX)), offset, Min(stops) - offset>>

\* C24: the forward scan of _recover rebuilds one entry per header of a
\* content section, in file order, with the offset just after the header
\* line and the length of the bytes present up to the next marker or the
\* end of the file; no entry reaches past the end of the file.
C24_ScanRebuildsSections ==
    (step = "stream:open" /\ outcome.op = "__init__") =>
        /\ w._sections = [k \in 1..Len(C24_Headers) |-> C24_Entry(C24_Headers[k])]
        /\ \A k \in 1..Len(w._sections) :
              w._sections[k][2] + w._sections[k][3] <= Len(orig.data)

\* C25: recovery cuts the file at the last trailing-index marker, else at
\* the last EOF marker, else not at all, and never removes a byte of a
\* reconstructed section: what is left is a prefix of the file that holds
\* every byte of every section that was in the file.
C25_TruncationKeepsSections ==
    (step = "stream:open" /\ outcome.op = "__init__") =>
        /\ Len(fsys["path"].data) <= Len(orig.data)
        /\ fsys["path"].data = SubSeq(orig.data, 1, Len(fsys["path"].data))
        /\ \A k \in 1..Len(w._sections) :
              Min({w._sections[k][2] + w._sections[k][3], Len(orig.data)})
                 <= Len(fsys["path"].data)

\* C26: after append-mode recovery the running checksum is in the state
\* the original writer had after writing the sections of the file (the
\* hash of their unescaped contents, in order, without the newline the
\* writer adds), and the checksum line a later close() writes covers the
\* recovered and the appended sections as one session would have.
C26_RecoveredChecksumIsOriginal ==
    \A s \in EarlierWriters :
        (orig.data = s.f.data \/ orig.data = close(s).f.data) =>
            /\ (step = "stream:open" /\ outcome.op = "__init__") =>
                  w._checksum = s.w._checksum
            /\ (step = "stream:open" /\ w._closed) =>
                  Contains(fsys["path"].data,
                           <<NL>> \o K_checksum \o <<SP>>
                           \o Sha256Hex(s.w._checksum
                                        \o Concat([i \in 1..Len(written) |->
                                                      Encode(written[i].content)]))
                           \o <<NL>>)

\* The content parse returned for the one section of the hand-made file.
C27_Content == parsed.doc.sections[1].content

\* C27: when parse reaches the end of the input without having met an EOF
\* marker line, a newline at the end of what the final section accumulated
\* stays in its content; the newline before the EOF marker line is removed
\* only because that line was found.
C27_NewlineKeptWithoutEof ==
    (pc = "parse:parsed" /\ parsed.status = "ok") =>
        /\ Len(parsed.doc.sections) = 1
        /\ crafted.ending = "eof" => C27_Content = crafted.body
        /\ crafted.ending # "eof" => C27_Content = crafted.body \o EndingText(crafted.ending)

\* The values the meta block gives key k, in the order of its lines.
C28_ValuesOf(k) ==
    LET hits == SelectSeq(crafted.meta, LAMBDA l : l.key = k)
    IN [i \in 1..Len(hits) |-> hits[i].val]

\* C28: metadata is first-wins in parse: a key that occurs on several
\* lines of the meta block has the value of its first line in the returned
\* document, whatever the values are, an empty first value included.
C28_MetaFirstWins ==
    (pc = "parse:parsed" /\ parsed.status = "ok") =>
        \A k \in MetaLineKeys :
            C28_ValuesOf(k) # <<>> =>
                IF k \in META_ALLOWLIST
                THEN parsed.doc[FieldOf(k)] = C28_ValuesOf(k)[1]
                ELSE /\ DictHas(parsed.doc.custom_meta, k)
                     /\ DictGet(parsed.doc.custom_meta, k, <<>>) = C28_ValuesOf(k)[1]

\* C29: metadata cannot forge structure: whatever the metadata keys and
\* values of a document hold, parse(serialize(doc)) succeeds and returns
\* the sections of doc.
C29_MetadataForgesNothing ==
    pc = "parsed" =>
        /\ parsed.status = "ok"
        /\ Pairs(parsed.doc.sections) = Pairs(doc.sections)

\* C30: every entry the lazy reader accepted into its index lies within
\* the file (0 <= offset, 0 <= length, offset + length <= file size),
\* whatever integers the index lines of the hand-made file hold, and a
\* lookup reads the length bytes from offset on and nothing else.
C30_AcceptedEntriesLieInFile ==
    (pc \in {"lazy:opened", "lazy:got", "lazy:validated"} /\ handle.err = "none") =>
        \A j \in 1..Len(handle.index) :
            LET e == handle.index[j]
            IN /\ 0 <= e.offset
               /\ 0 <= e.length
               /\ e.offset + e.length <= handle.file_size
               /\ ~ReadRawRaises(handle, e.offset, e.length)
               /\ _read_raw(handle, e.offset, e.length)
                     = SubSeq(handle.data, e.offset + 1, e.offset + e.length)

=============================================================================
